---- MODULE Spec2Model ----
(***************************************************************************)
(* Model of the wow-addon-updater update engine: Addon.update,             *)
(* Addon.extractZip, skipUnzip, hasUpdate and the release/tag resolvers    *)
(* of src/addon.go, the cache-aware fetcher of src/unnamed/part_006 and    *)
(* the disk task pool of src/thread_pool.go.                               *)
(*                                                                         *)
(* Strings that the code takes apart (archive entry names, directory       *)
(* rules, refs, asset names) are sequences of tokens; a token is either    *)
(* the separator "/" or a piece of text without a separator, and the       *)
(* string is the concatenation of its tokens.  strings.HasPrefix is the    *)
(* sequence prefix test, string concatenation is \o.                       *)
(* Files on disk are keyed by their path relative to the working           *)
(* directory, a sequence of path components.                               *)
(***************************************************************************)
EXTENDS Integers, Sequences, FiniteSets, TLC

(***************************************************************************)
(* Bounds of the model.                                                    *)
(***************************************************************************)
\* number of versions the remote can serve (timestamps 1..MaxVer, tags 1..MaxVer)
MaxVer == 4
\* number of Addon.update invocations (runs of the updater) per behaviour
MaxRuns == 3
\* effective number of disk workers (AddonManager.DiskTasks) of the run
DiskTasks == 2
\* longest include or exclude list given to the inclusion test
MaxRules == 2
\* largest number of assets of a release given to findTaggedRel
MaxAssets == 3
\* largest number of add-ons a manager is configured with
MaxAddons == 2
\* largest number of goroutines of a task pool on its own
MaxThreads == 2
\* largest number of units submitted to a task pool on its own
MaxUnits == 5
\* largest number of lines one update logs
MaxLines == 3
\* AddonManager.NetTasks as configured: one network worker
NetTasks == 1

(***************************************************************************)
(* Program constants.                                                      *)
(***************************************************************************)
\* capacity of the disk task queue: spawnTaskPool(am.DiskTasks, 12)
DiskQueueCap == 12
\* capacity of one add-on's log channel: make(chan string, 8)
LogCap == 8

GhRelease == "GhRelease"
GhTag == "GhTag"

nil == "nil"
\* time.Time{} : the zero instant, before every timestamp the remote serves
ZeroTime == 0
\* the empty string
Empty == << >>

(***************************************************************************)
(* Strings as token sequences.                                             *)
(***************************************************************************)
\* strings.HasPrefix(s, prefix)
HasPrefix(s, prefix) ==
    /\ Len(prefix) <= Len(s)
    /\ SubSeq(s, 1, Len(prefix)) = prefix

\* strings.IndexByte(s, '/') , 1-based; 0 when there is none (Go: -1)
IndexByte(s) ==
    IF \E i \in 1..Len(s) : s[i] = "/"
    THEN CHOOSE i \in 1..Len(s) : s[i] = "/" /\ \A j \in 1..(i-1) : s[j] # "/"
    ELSE 0

\* strings.LastIndexByte(s, '/') , 1-based; 0 when there is none (Go: -1)
LastIndexByte(s) ==
    IF \E i \in 1..Len(s) : s[i] = "/"
    THEN CHOOSE i \in 1..Len(s) : s[i] = "/" /\ \A j \in (i+1)..Len(s) : s[j] # "/"
    ELSE 0

\* zip.File.Mode().IsDir(): archive/zip marks an entry a directory when its
\* name ends with the separator
IsDirEntry(name) == Len(name) > 0 /\ name[Len(name)] = "/"

\* The path components a file name resolves to, relative to the working
\* directory: split at "/", dropping empty components and "."
RECURSIVE PathOf(_)
PathOf(s) ==
    IF s = << >> THEN << >>
    ELSE IF Head(s) = "/" \/ Head(s) = "." THEN PathOf(Tail(s))
    ELSE <<Head(s)>> \o PathOf(Tail(s))

\* p is path q or an ancestor of it
IsUnder(q, p) == Len(p) <= Len(q) /\ SubSeq(q, 1, Len(p)) = p

(***************************************************************************)
(* The file system below the working directory: a function from the paths  *)
(* that exist to "dir" or "file".  The working directory itself, path      *)
(* << >>, always exists.                                                   *)
(***************************************************************************)
IsDirOnDisk(disk, p) == p = << >> \/ (p \in DOMAIN disk /\ disk[p] = "dir")

Parent(p) == SubSeq(p, 1, Len(p) - 1)

\* os.RemoveAll(path): path and everything below it is gone afterwards
RemoveAll(disk, p) ==
    [q \in {r \in DOMAIN disk : ~IsUnder(r, p)} |-> disk[q]]

Ancestors(p) == {SubSeq(p, 1, k) : k \in 1..Len(p)}

\* os.MkdirAll(path) can succeed: no component of the path is a non-directory
MkdirAllOk(disk, p) ==
    \A q \in Ancestors(p) : q \in DOMAIN disk => disk[q] = "dir"

\* os.MkdirAll(path): the directory and every missing parent exist afterwards
MkdirAll(disk, p) ==
    [q \in DOMAIN disk \cup Ancestors(p) |->
        IF q \in DOMAIN disk THEN disk[q] ELSE "dir"]

\* os.OpenFile(path, O_CREATE|O_TRUNC|O_WRONLY) can succeed: the parent is an
\* existing directory and the path is not a directory
OpenFileOk(disk, p) ==
    /\ Len(p) > 0
    /\ IsDirOnDisk(disk, Parent(p))
    /\ ~(p \in DOMAIN disk /\ disk[p] = "dir")

\* the file exists after OpenFile, whatever the copy then does
WriteFile(disk, p) ==
    [q \in DOMAIN disk \cup {p} |-> IF q = p THEN "file" ELSE disk[q]]

(***************************************************************************)
(* Inclusion test and update detection.                                    *)
(***************************************************************************)
\* a variant that consults the include list before the exclude list
skipUnzipIncludeFirst(addon, filename) ==
    IF \E i \in 1..Len(addon.includeDirs) : HasPrefix(filename, addon.includeDirs[i])
    THEN FALSE
    ELSE IF \E i \in 1..Len(addon.excludeDirs) : HasPrefix(filename, addon.excludeDirs[i])
    THEN TRUE
    ELSE Len(addon.includeDirs) # 0

\* skipUnzip(addon, filename): TRUE when the entry is not to be extracted
skipUnzip(addon, filename) ==
    IF \E i \in 1..Len(addon.excludeDirs) : HasPrefix(filename, addon.excludeDirs[i])
    THEN TRUE
    ELSE IF \E i \in 1..Len(addon.includeDirs) : HasPrefix(filename, addon.includeDirs[i])
    THEN FALSE
    ELSE Len(addon.includeDirs) # 0

\* a variant that compares timestamps with "not after" instead of "before"
hasUpdateNotAfter(addon, asset) ==
    \/ (asset.RelType = GhRelease /\ addon.UpdatedOn <= asset.UpdatedAt)
    \/ (asset.RelType = GhTag /\ addon.RefSha # asset.RefSha)

\* a variant that compares the timestamps whatever the kind of the asset
hasUpdateByTime(addon, asset) ==
    addon.UpdatedOn < asset.UpdatedAt

\* Addon.hasUpdate(asset); time.Time.Before is < on instants
hasUpdate(addon, asset) ==
    \/ (asset.RelType = GhRelease /\ addon.UpdatedOn < asset.UpdatedAt)
    \/ (asset.RelType = GhTag /\ addon.RefSha # asset.RefSha)

(***************************************************************************)
(* Release resolution.                                                     *)
(***************************************************************************)
\* downloadAsset; a decoded asset has the zero RelType, GhRelease, and empty
\* RefSha and Version
NoAsset ==
    [Name |-> Empty, DownloadUrl |-> Empty, ContentType |-> "",
     UpdatedAt |-> ZeroTime, RefSha |-> Empty, Version |-> Empty,
     RelType |-> GhRelease]

\* regexp `classic|bc|wrath|cata` .MatchString(name): some piece of the name
\* is one of the four words, in this letter case
classicFlavors(name) ==
    \E i \in 1..Len(name) : name[i] \in {"classic", "bc", "wrath", "cata"}

\* slices.IndexFunc(s, P), 1-based; 0 when no element satisfies P (Go: -1)
IndexFunc(s, P(_)) ==
    IF \E i \in 1..Len(s) : P(s[i])
    THEN CHOOSE i \in 1..Len(s) : P(s[i]) /\ \A j \in 1..(i-1) : ~P(s[j])
    ELSE 0

isMainline(m) == m.Flavor = "mainline"

\* findTaggedRel, the loop over addonReleases.Releases: the first entry with
\* a mainline metadata, 0 when there is none
mainlineIdx(addonReleases) ==
    LET hasMainline(rel) == \E k \in 1..Len(rel.Metadata) : isMainline(rel.Metadata[k])
    IN  IndexFunc(addonReleases.Releases, hasMainline)

\* a variant that accepts any non-classic zip besides the file the manifest
\* names
isReleaseAssetOrFallback(relIdx, addonReleases, x) ==
    /\ x.ContentType = "application/zip"
    /\ \/ ~classicFlavors(x.Name)
       \/ (relIdx # 0 /\ x.Name = addonReleases.Releases[relIdx].Filename)

\* findTaggedRel, isReleaseAsset: the fallback test, replaced by the test
\* for the manifest's file when the manifest has a mainline entry
isReleaseAsset(relIdx, addonReleases, x) ==
    IF relIdx = 0
    THEN x.ContentType = "application/zip" /\ ~classicFlavors(x.Name)
    ELSE x.ContentType = "application/zip"
         /\ x.Name = addonReleases.Releases[relIdx].Filename

\* a variant that labels every asset with the release's tag name
relVersionTagName(relIdx, ghRelease, addonReleases) == ghRelease.TagName

\* findTaggedRel, version: the tag name, replaced by the manifest entry's
\* version when the manifest has a mainline entry
relVersion(relIdx, ghRelease, addonReleases) ==
    IF relIdx = 0 THEN ghRelease.TagName
    ELSE addonReleases.Releases[relIdx].Version

\* Addon.findTaggedRel(ghRelease, addonReleases): [err, asset]
findTaggedRel(ghRelease, addonReleases) ==
    LET relIdx == mainlineIdx(addonReleases)
        matches(x) == isReleaseAsset(relIdx, addonReleases, x)
        idx == IndexFunc(ghRelease.Assets, matches)
    IN  IF idx = 0
        THEN [err |-> "no matching asset found from release manifest", asset |-> NoAsset]
        ELSE [err |-> nil,
              asset |-> [ghRelease.Assets[idx] EXCEPT
                            !.RelType = GhRelease,
                            !.Version = relVersion(relIdx, ghRelease, addonReleases)]]

\* a variant that identifies the tag by the commit it points to
taggedRefShaOfObject(ref) == ref.Sha

\* findTaggedRef, RefSha: ref.Ref
taggedRefSha(ref) == ref.Ref

\* Addon.findTaggedRef(ghRefs): [err, asset]
findTaggedRef(addon, ghRefs) ==
    IF Len(ghRefs) = 0
    THEN [err |-> "did not find valid ref", asset |-> NoAsset]
    ELSE LET ref == ghRefs[Len(ghRefs)]
             name == SubSeq(ref.Ref, LastIndexByte(ref.Ref) + 1, Len(ref.Ref)) \o <<".zip">>
         IN  [err |-> nil,
              asset |-> [Name |-> name,
                         DownloadUrl |-> <<"https://github.com/">> \o addon.Name
                                         \o <<"/archive/">> \o ref.Ref \o <<".zip">>,
                         ContentType |-> "application/zip",
                         UpdatedAt |-> ZeroTime,
                         RefSha |-> taggedRefSha(ref),
                         Version |-> name,
                         RelType |-> GhTag]]

(***************************************************************************)
(* Inputs of the model: the archives the remote can serve, the directory   *)
(* rules an add-on can be configured with, and the documents served.       *)
(***************************************************************************)
\* an archive of four files in four top-level directories, none of which
\* has a directory entry
ZipExample ==
    << <<"d1", "/", "a.lua">>, <<"d2", "/", "b.lua">>, <<"d3", "/", "c.lua">>,
       <<"d4", "/", "d.lua">> >>

\* a file listed before its directory entry, a nested directory listed before
\* its parent, and a file at the archive root
ZipUnordered ==
    << <<"d1", "/", "a.lua">>, <<"d1", "/", "s", "/">>, <<"d1", "/">>, <<"r.txt">> >>

\* an archive as a packager writes it: every directory has its entry, listed
\* before the files in it
ZipPackaged ==
    << <<"d1", "/">>, <<"d1", "/", "a.lua">>, <<"d2", "/">>, <<"d2", "/", "b.lua">> >>

Archives == << ZipUnordered, ZipExample, ZipPackaged >>

\* the archive of version n: a later version can ship the archive of an
\* earlier one again
ZipOf(n) == ((n - 1) % Len(Archives)) + 1

\* include and exclude lists as AddonManagerCfg.load leaves them: every entry
\* ends with the separator
DirRules ==
    { [includeDirs |-> << >>, excludeDirs |-> << >>],
      [includeDirs |-> << <<"d1", "/">>, <<"d3", "/">> >>, excludeDirs |-> << <<"d2", "/">> >>] }

\* directories found in the working directory before the first run: none, or
\* add-on directories installed by hand
Installed == { {}, {<<"d1">>, <<"d3">>} }

AddonName == <<"proj", "/", "addon1">>
ShortName == <<"addon1">>

\* bytes: what a buffer, a cache file or a response body holds
Bytes(kind, val) == [kind |-> kind, val |-> val]
NoBytes == Bytes("empty", 0)
\* an empty or truncated payload, or one that is not of the expected format
BadBytes == Bytes("bad", 0)

ZipAssetName(n) == <<"addon", "-", ToString(n), ".zip">>
\* browser_download_url of the zip asset of release n
ZipAssetUrl(n) == <<"https://github.com/">> \o AddonName
                  \o <<"/releases/download/", "v", ToString(n), "/">> \o ZipAssetName(n)
\* the url findTaggedRef builds for tag n
TagArchiveUrl(n) == <<"https://github.com/">> \o AddonName
                    \o <<"/archive/", "refs", "/", "tags", "/", ToString(n), ".zip">>

\* the body a download url serves: the archive of the release or tag the url
\* names, or a page that is no archive
ServedArchive(url) ==
    IF \E n \in 1..MaxVer : url \in {ZipAssetUrl(n), TagArchiveUrl(n)}
    THEN Bytes("zip", ZipOf(CHOOSE n \in 1..MaxVer : url \in {ZipAssetUrl(n), TagArchiveUrl(n)}))
    ELSE BadBytes

\* releases with an even number carry a release.json manifest
HasManifest(n) == n % 2 = 0

\* GET /repos/{name}/releases/latest while version n is the latest
ServedRelease(n) ==
    LET zipAsset == [NoAsset EXCEPT !.Name = ZipAssetName(n),
                                    !.DownloadUrl = ZipAssetUrl(n),
                                    !.ContentType = "application/zip",
                                    !.UpdatedAt = n]
        manifest == [NoAsset EXCEPT !.Name = <<"release.json">>,
                                    !.DownloadUrl = <<"dl", "/", "release.json">>,
                                    !.ContentType = "application/json",
                                    !.UpdatedAt = n]
    IN  [TagName |-> <<"v", ToString(n)>>,
         Assets |-> IF HasManifest(n) THEN <<manifest, zipAsset>> ELSE <<zipAsset>>]

\* the release.json asset of release n
ServedManifest(n) ==
    [Releases |-> << [Version |-> <<ToString(n), ".0">>,
                      Filename |-> ZipAssetName(n),
                      Metadata |-> << [Flavor |-> "mainline", Interface |-> 110002] >>] >>]

\* GET /repos/{name}/git/refs/tags while tag n is the newest
ServedRefs(n) ==
    [k \in 1..n |-> [Ref |-> <<"refs", "/", "tags", "/", ToString(k)>>,
                     Sha |-> <<"sha", ToString(k)>>]]

(***************************************************************************)
(* Cache-aware fetcher.                                                    *)
(***************************************************************************)
\* outcomes of one HTTP request: the body arrives, the request fails (no
\* connection or a status other than 200), or the copy of the body fails
NetOutcomes == {"ok", "fail", "copyerr"}

\* what is left of an earlier payload in a buffer, followed by a later one
LeftoverBytes == Bytes("leftover", 0)

\* a variant that keeps what the buffer held
bufResetKeeps(b) == b

\* a.buf.Reset()
bufReset(b) == NoBytes

\* a write of payload p to buffer b appends
bufWrite(b, p) == IF p = NoBytes THEN b ELSE IF b = NoBytes THEN p ELSE LeftoverBytes

\* Addon.cacheDownloadTask(url, fileNm): [err, buf, cache, requested] where
\* prior is what a.buf holds, served the body the url serves and net the
\* outcome of the request, if one is made
cacheDownloadTask(prior, cacheRoot, files, fileNm, served, net) ==
    IF cacheRoot # Empty /\ fileNm \in DOMAIN files
    THEN [err |-> nil, buf |-> bufWrite(bufReset(prior), files[fileNm]),
          cache |-> files, requested |-> FALSE]
    ELSE LET withFile == IF cacheRoot # Empty
                        THEN [k \in DOMAIN files \cup {fileNm} |->
                                 IF k = fileNm THEN BadBytes ELSE files[k]]
                        ELSE files
         IN  CASE net = "fail" ->
                    [err |-> "error fetching", buf |-> bufReset(prior),
                     cache |-> withFile, requested |-> TRUE]
               [] net = "copyerr" ->
                    [err |-> "error copying data", buf |-> bufWrite(bufReset(prior), BadBytes),
                     cache |-> withFile, requested |-> TRUE]
               [] OTHER ->
                    [err |-> nil, buf |-> bufWrite(bufReset(prior), served),
                     cache |-> IF cacheRoot # Empty
                               THEN [withFile EXCEPT ![fileNm] = served]
                               ELSE files,
                     requested |-> TRUE]

\* fetchJson: [err, buf, cache, requested]; json.Unmarshal fails on a payload
\* that is empty, truncated or not JSON
fetchJson(prior, cacheRoot, files, fileNm, served, net) ==
    LET r == cacheDownloadTask(prior, cacheRoot, files, fileNm, served, net)
    IN  IF r.err # nil THEN [r EXCEPT !.err = "error downloading"]
        ELSE IF r.buf.kind \in {"bad", "empty", "leftover"}
        THEN [r EXCEPT !.err = "error unmarshalling"]
        ELSE r

(***************************************************************************)
(* State.                                                                  *)
(***************************************************************************)
VARIABLES
    a,             \* the Addon: configuration and AddonUpdateInfo
    cacheDir,      \* addonSharedState.cacheDir: Empty (nil) or the root's name
    disk,          \* the file system below the working directory
    cache,         \* the files of the cache root, by file name
    remote,        \* the latest release and newest tag the hosting provider serves
    runs,          \* number of completed Addon.update calls
    pc,            \* position of the Coordinator inside Addon.update
    ghRelease,     \* getTaggedRelease: the decoded latest-release document
    asset,         \* update: the resolved downloadAsset
    buf,           \* addonSharedState.buf
    status,        \* addonUpdateStatus: [err]
    logs,          \* lines sent on the add-on's log channel in this run
    zipRd,         \* extractZip: zipRd.File, the entry names in archive order
    delIdx,        \* extractZip: position in the loop over a.ExtractedDirs
    walkIdx,       \* extractZip: position in the loop over zipRd.File
    extractFiles,  \* extractZip: surviving file entries
    topLevelDirs,  \* extractZip: set of top-level dirs appended so far
    dispIdx,       \* extractZip: position in the loop over extractFiles
    unzipErr,      \* extractZip: atomic.Bool
    wg,            \* extractZip: sync.WaitGroup counter
    diskQueue,     \* the disk pool's task channel: indices into extractFiles
    running,       \* disk pool: the tasks its runnings are executing
    pre,           \* history: the Addon as it was when update was called
    ops,           \* history: what the current update has done so far
    made,          \* history: paths below the destination root that extraction created
    lastRun,       \* history: outcome of the latest completed update
    allOk,         \* history: no completed update returned an error
    lastExtract,   \* history: archive and outcome of the latest extractZip call
    fnArgs,        \* arguments of the pure function under evaluation
    fnRes,         \* its result
    am,            \* the AddonManager: its add-ons, cache directory and cache files
    upd,           \* per add-on: where its update task stands and its status
    updatePool,    \* the update pool of UpdateAddons: task and result channels
    tp,            \* a task pool of thread_pool.go on its own: channels and goroutines
    fan,           \* the log channels of UpdateAddons and what has been printed
    cfg,           \* the AddonManagerCfg read, the manager loaded from it, the one saved
    run            \* one call of UpdateAddons as its goroutines block and wake each other

updVars == <<a, cacheDir, disk, cache, remote, runs, pc, ghRelease, asset,
             buf, status, logs, zipRd, delIdx, walkIdx, extractFiles, topLevelDirs,
             dispIdx, unzipErr, wg, diskQueue, running, pre, ops, made, lastRun,
             allOk, lastExtract>>
fnVars == <<fnArgs, fnRes>>
amVars == <<am, upd, updatePool>>
sideVars == <<tp, fan, cfg, run>>
vars == <<updVars, fnVars, amVars, sideVars>>


UpdateInfo(addon) ==
    [Version |-> addon.Version, UpdatedOn |-> addon.UpdatedOn,
     RefSha |-> addon.RefSha, ExtractedDirs |-> addon.ExtractedDirs]

NoRelease == [TagName |-> Empty, Assets |-> << >>]
NoOps == [downloads |-> 0, removed |-> {}, removeFailed |-> FALSE,
          mkdirs |-> {}, writes |-> {}, recorded |-> FALSE, late |-> {},
          skipped |-> {}]

\* extractZip: addonsDir
addonsDir == IF cacheDir # Empty THEN cacheDir \o <<"/", "addons", "/">> ELSE <<".", "/">>
\* the destination root as a path
DestRoot == PathOf(addonsDir)
Below(q, root) == IsUnder(q, root) /\ Len(q) > Len(root)

\* a new Addon as AddonManagerCfg.validate and load build it, with the empty
\* AddonUpdateInfo of an add-on seen for the first time
NewAddon(rules, relType, skipped) ==
    [Name |-> AddonName, shortName |-> ShortName, RelType |-> relType, skip |-> skipped,
     includeDirs |-> rules.includeDirs, excludeDirs |-> rules.excludeDirs,
     Version |-> Empty, UpdatedOn |-> ZeroTime, RefSha |-> Empty, ExtractedDirs |-> << >>]

\* extractZip has not been called, or its latest call returned an error
NoExtract == [ok |-> FALSE, zip |-> << >>, dirs |-> << >>, files |-> << >>]

\* no pure function is under evaluation
NoCall == [fn |-> "none"]
NoResult == [done |-> FALSE, val |-> FALSE]
FnIdle == fnArgs = NoCall /\ fnRes = NoResult

\* UpdateAddons is not under study: no manager, no pool
NoManager == [Addons |-> << >>, CacheDir |-> Empty, cache |-> << >>, remote |-> 0,
              bufs |-> << >>]
NoPool == [tasks |-> << >>, sent |-> 0, closed |-> FALSE, exited |-> 0,
           results |-> << >>, received |-> << >>]
AmIdle == am = NoManager /\ upd = << >> /\ updatePool = NoPool

\* no task pool and no log channel is under study
NoTaskPool == [threads |-> 0]
NoFan == [chans |-> << >>]
NoCfg == [stage |-> "none"]
NoRun == [n |-> 0, stage |-> "none"]
SideIdle == tp = NoTaskPool /\ fan = NoFan /\ cfg = NoCfg /\ run = NoRun

\* update is not running: its locals and those of extractZip do not exist
Idle ==
    /\ pc = "idle"
    /\ ghRelease = NoRelease
    /\ asset = NoAsset
    /\ buf = NoBytes
    /\ status = [err |-> nil]
    /\ logs = << >>
    /\ zipRd = << >>
    /\ delIdx = 1
    /\ walkIdx = 1
    /\ extractFiles = << >>
    /\ topLevelDirs = {}
    /\ dispIdx = 1
    /\ unzipErr = FALSE
    /\ wg = 0
    /\ diskQueue = << >>
    /\ running = {}
    /\ pre = a
    /\ ops = NoOps

Init ==
    /\ \E rules \in DirRules, relType \in {GhRelease, GhTag}, skipped \in BOOLEAN :
          a = NewAddon(rules, relType, skipped)
    /\ cacheDir \in {Empty, <<"cache">>}
    \* load() creates the cache root directory when one is configured
    /\ \E inst \in Installed :
          /\ cacheDir # Empty => inst = {}
          /\ disk = [p \in ({PathOf(cacheDir)} \ {<< >>}) \cup inst |-> "dir"]
    /\ cache = << >>
    /\ remote \in 1..MaxVer
    /\ runs = 0
    /\ Idle
    /\ made = {}
    /\ lastRun = "none"
    /\ allOk = TRUE
    /\ lastExtract = NoExtract
    /\ FnIdle
    /\ AmIdle
    /\ SideIdle

(***************************************************************************)
(* Addon.update: resolve, compare, download.                               *)
(***************************************************************************)
\* Addon.Logf: a send on the add-on's buffered log channel
Logf(line) ==
    /\ Len(logs) < LogCap
    /\ logs' = Append(logs, line)

\* a step of update fails: a.Errorf logs the error, update returns the status
Fail(msg) ==
    /\ status' = [err |-> msg]
    /\ Logf("error updating addon")
    /\ pc' = "done"

extractVars == <<zipRd, delIdx, walkIdx, extractFiles, topLevelDirs, dispIdx,
                 unzipErr, wg, diskQueue, running>>
histVars == <<pre, ops, made, lastRun, allOk>>

\* UpdateAddons hands the add-on a reset buffer and calls update, which logs
\* the last known state
StartUpdate ==
    /\ pc = "idle"
    /\ runs < MaxRuns
    /\ pc' = "check"
    /\ logs' = <<"checking for update">>
    /\ status' = [err |-> nil]
    /\ buf' = NoBytes
    /\ asset' = NoAsset
    /\ ghRelease' = NoRelease
    /\ pre' = a
    /\ ops' = NoOps
    /\ UNCHANGED <<a, cacheDir, disk, cache, remote, runs, extractVars,
                   made, lastRun, allOk, lastExtract, fnVars, amVars, sideVars>>

releaseManifest(x) == x.ContentType = "application/json" /\ x.Name = <<"release.json">>

\* checkUpdate -> getTaggedRelease: fetch and decode the latest release; without
\* a release.json asset go on to findTaggedRel with an empty manifest
GetTaggedRelease ==
    /\ pc = "check"
    /\ a.RelType = GhRelease
    /\ \E net \in NetOutcomes :
         LET r == fetchJson(buf, cacheDir, cache, a.shortName \o <<"-rel.json">>,
                            Bytes("rel", ServedRelease(remote)), net)
         IN  /\ buf' = r.buf
             /\ cache' = r.cache
             /\ IF r.err # nil
                THEN Fail("could not find update data") /\ UNCHANGED <<ghRelease, asset>>
                ELSE IF IndexFunc(r.buf.val.Assets, releaseManifest) # 0
                THEN /\ ghRelease' = r.buf.val
                     /\ pc' = "manifest"
                     /\ UNCHANGED <<asset, status, logs>>
                ELSE LET res == findTaggedRel(r.buf.val, [Releases |-> << >>])
                     IN  /\ ghRelease' = r.buf.val
                         /\ IF res.err # nil
                            THEN Fail("could not find update data") /\ UNCHANGED asset
                            ELSE /\ asset' = res.asset
                                 /\ pc' = "compare"
                                 /\ UNCHANGED <<status, logs>>
    /\ UNCHANGED <<a, cacheDir, disk, remote, runs, extractVars, histVars, lastExtract, fnVars, amVars, sideVars>>

\* getTaggedRelease: fetch the release.json asset from its download url, then
\* findTaggedRel
FetchManifest ==
    /\ pc = "manifest"
    /\ \E net \in NetOutcomes :
         LET relAsset == ghRelease.Assets[IndexFunc(ghRelease.Assets, releaseManifest)]
             r == fetchJson(buf, cacheDir, cache, a.shortName \o <<"-addonRel.json">>,
                            Bytes("manifest", ServedManifest(relAsset.UpdatedAt)), net)
         IN  /\ buf' = r.buf
             /\ cache' = r.cache
             /\ IF r.err # nil
                THEN Fail("could not find update data") /\ UNCHANGED asset
                ELSE LET res == findTaggedRel(ghRelease, r.buf.val)
                     IN  IF res.err # nil
                         THEN Fail("could not find update data") /\ UNCHANGED asset
                         ELSE /\ asset' = res.asset
                              /\ pc' = "compare"
                              /\ UNCHANGED <<status, logs>>
    /\ UNCHANGED <<a, cacheDir, disk, remote, runs, ghRelease, extractVars,
                   histVars, lastExtract, fnVars, amVars, sideVars>>

\* checkUpdate -> getTaggedRef: fetch and decode the tag refs, then findTaggedRef
GetTaggedRef ==
    /\ pc = "check"
    /\ a.RelType = GhTag
    /\ \E net \in NetOutcomes :
         LET r == fetchJson(buf, cacheDir, cache, a.shortName \o <<"-ref.json">>,
                            Bytes("ref", ServedRefs(remote)), net)
         IN  /\ buf' = r.buf
             /\ cache' = r.cache
             /\ IF r.err # nil
                THEN Fail("could not find update data") /\ UNCHANGED asset
                ELSE LET res == findTaggedRef(a, r.buf.val)
                     IN  IF res.err # nil
                         THEN Fail("could not find update data") /\ UNCHANGED asset
                         ELSE /\ asset' = res.asset
                              /\ pc' = "compare"
                              /\ UNCHANGED <<status, logs>>
    /\ UNCHANGED <<a, cacheDir, disk, remote, runs, ghRelease, extractVars,
                   histVars, lastExtract, fnVars, amVars, sideVars>>

\* a variant that downloads an update for a skipped add-on as well
afterCompareIgnoreSkip(found, skipped) ==
    IF ~found THEN [log |-> "no update found", pc |-> "done"]
    ELSE [log |-> "downloading update", pc |-> "download"]

\* update after checkUpdate: the line logged and where update goes on, given
\* the result of hasUpdate and the skip flag
afterCompare(found, skipped) ==
    IF ~found THEN [log |-> "no update found", pc |-> "done"]
    ELSE IF skipped THEN [log |-> "skipping update", pc |-> "done"]
    ELSE [log |-> "downloading update", pc |-> "download"]

\* update: compare the resolved asset with the stored state
HasUpdate ==
    /\ pc = "compare"
    /\ LET next == afterCompare(hasUpdate(a, asset), a.skip)
       IN  Logf(next.log) /\ pc' = next.pc
    /\ UNCHANGED <<a, cacheDir, disk, cache, remote, runs, ghRelease, asset,
                   buf, status, extractVars, histVars, lastExtract, fnVars, amVars, sideVars>>

\* update -> downloadZip
DownloadZip ==
    /\ pc = "download"
    /\ \E net \in NetOutcomes :
         LET r == cacheDownloadTask(buf, cacheDir, cache, a.shortName \o <<"-">> \o asset.Name,
                                    ServedArchive(asset.DownloadUrl), net)
         IN  /\ buf' = r.buf
             /\ cache' = r.cache
             /\ IF r.err # nil
                THEN Fail("unable to download update")
                ELSE Logf("unzipping") /\ pc' = "extract" /\ UNCHANGED status
    /\ ops' = [ops EXCEPT !.downloads = @ + 1]
    /\ UNCHANGED <<a, cacheDir, disk, remote, runs, ghRelease, asset,
                   extractVars, pre, made, lastRun, allOk, lastExtract, fnVars, amVars, sideVars>>

(***************************************************************************)
(* Addon.extractZip.                                                       *)
(***************************************************************************)
\* zip.NewReader on the downloaded bytes
OpenZip ==
    /\ pc = "extract"
    /\ IF buf.kind # "zip"
       THEN Fail("error extracting update: not zip format") /\ UNCHANGED <<zipRd, delIdx>>
       ELSE /\ zipRd' = Archives[buf.val]
            /\ delIdx' = 1
            /\ pc' = "delete"
            /\ UNCHANGED <<status, logs>>
    /\ UNCHANGED <<a, cacheDir, disk, cache, remote, runs, ghRelease, asset, buf,
                   walkIdx, extractFiles, topLevelDirs, dispIdx, unzipErr, wg, diskQueue,
                   running, histVars, lastExtract, fnVars, amVars, sideVars>>

\* a variant that goes on with the next directory when a removal fails
afterRemoveAllIgnoreErr(ok) == "delete"

\* the loop over a.ExtractedDirs after os.RemoveAll returned: go on, or return
\* the error
afterRemoveAll(ok) == IF ok THEN "delete" ELSE "fail"

\* extractZip: delete one previously extracted dir, os.RemoveAll(dir)
RemoveExtracted ==
    /\ pc = "delete"
    /\ delIdx <= Len(a.ExtractedDirs)
    /\ \E ok \in BOOLEAN :
         LET target == PathOf(a.ExtractedDirs[delIdx])
         IN  /\ disk' = IF ok THEN RemoveAll(disk, target) ELSE disk
             /\ ops' = IF ok THEN [ops EXCEPT !.removed = @ \cup {target}]
                       ELSE [ops EXCEPT !.removeFailed = TRUE]
             /\ made' = IF ok THEN {q \in made : ~IsUnder(q, target)} ELSE made
             /\ IF afterRemoveAll(ok) = "delete"
                THEN delIdx' = delIdx + 1 /\ UNCHANGED <<pc, status, logs>>
                ELSE Fail("error removing previously installed addon dir")
                     /\ UNCHANGED delIdx
    /\ UNCHANGED <<a, cacheDir, cache, remote, runs, ghRelease, asset, buf,
                   zipRd, walkIdx, extractFiles, topLevelDirs, dispIdx, unzipErr, wg,
                   diskQueue, running, pre, lastRun, allOk, lastExtract, fnVars, amVars, sideVars>>

\* a variant that keeps the names of the previous extraction
truncateKeep(dirs) == dirs

\* a.ExtractedDirs[:0]
truncate(dirs) == << >>

\* extractZip: a.ExtractedDirs = a.ExtractedDirs[:0] once every dir is removed
ResetExtracted ==
    /\ pc = "delete"
    /\ delIdx > Len(a.ExtractedDirs)
    /\ a' = [a EXCEPT !.ExtractedDirs = truncate(@)]
    /\ extractFiles' = << >>
    /\ topLevelDirs' = {}
    /\ walkIdx' = 1
    /\ pc' = "walk"
    /\ UNCHANGED <<cacheDir, disk, cache, remote, runs, ghRelease, asset, buf,
                   status, logs, zipRd, delIdx, dispIdx, unzipErr, wg, diskQueue, running,
                   histVars, lastExtract, fnVars, amVars, sideVars>>

\* a variant that ends the loop over the archive after its first entry
walkDoneEarly(idx, n) == idx > 1

\* the loop over zipRd.File has handled every entry
walkDone(idx, n) == idx > n

\* extractZip: one entry of the archive: skip it, create its directory and
\* record its top-level dir, or keep the file for the second pass
WalkEntry ==
    /\ pc = "walk"
    /\ ~walkDone(walkIdx, Len(zipRd))
    /\ LET file == zipRd[walkIdx]
           parentDir == SubSeq(file, 1, IndexByte(file) - 1)
           subDir == PathOf(addonsDir \o file)
       IN  IF skipUnzip(a, file)
           THEN /\ walkIdx' = walkIdx + 1
                /\ UNCHANGED <<a, disk, extractFiles, topLevelDirs, pc, status, logs, ops,
                               made>>
           ELSE IF IsDirEntry(file)
           THEN /\ a' = IF parentDir \in topLevelDirs THEN a
                        ELSE [a EXCEPT !.ExtractedDirs = Append(@, parentDir)]
                /\ topLevelDirs' = topLevelDirs \cup {parentDir}
                /\ ops' = [ops EXCEPT !.mkdirs = @ \cup {subDir}]
                /\ \E ok \in {TRUE, MkdirAllOk(disk, subDir)} :
                     IF ok /\ MkdirAllOk(disk, subDir)
                     THEN /\ disk' = MkdirAll(disk, subDir)
                          /\ made' = made \cup {q \in Ancestors(subDir) \ DOMAIN disk :
                                                   Below(q, DestRoot)}
                          /\ walkIdx' = walkIdx + 1
                          /\ UNCHANGED <<pc, status, logs>>
                     ELSE /\ Fail("error creating dir")
                          /\ UNCHANGED <<disk, made, walkIdx>>
                /\ UNCHANGED extractFiles
           ELSE /\ extractFiles' = Append(extractFiles, file)
                /\ walkIdx' = walkIdx + 1
                /\ UNCHANGED <<a, disk, topLevelDirs, pc, status, logs, ops, made>>
    /\ UNCHANGED <<cacheDir, cache, remote, runs, ghRelease, asset, buf, zipRd,
                   delIdx, dispIdx, unzipErr, wg, diskQueue, running, pre, lastRun, allOk,
                   lastExtract, fnVars, amVars, sideVars>>

\* extractZip: unzipErr, wg.Add(len(extractFiles)) after the first pass
StartExtract ==
    /\ pc = "walk"
    /\ walkDone(walkIdx, Len(zipRd))
    /\ unzipErr' = FALSE
    /\ wg' = Len(extractFiles)
    /\ dispIdx' = 1
    /\ pc' = "dispatch"
    /\ UNCHANGED <<a, cacheDir, disk, cache, remote, runs, ghRelease, asset, buf,
                   status, logs, zipRd, delIdx, walkIdx, extractFiles, topLevelDirs,
                   diskQueue, running, histVars, lastExtract, fnVars, amVars, sideVars>>

\* a variant whose loop goes on to the next file without wg.Done()
skipFileUncounted(counter) == counter

\* extractZip, a file met after an error was recorded: wg.Done(); continue
skipFile(counter) == counter - 1

\* extractZip: one iteration of the loop over extractFiles: count the file as
\* done when an error has been recorded, else queue its task on the disk pool
Dispatch ==
    /\ pc = "dispatch"
    /\ dispIdx <= Len(extractFiles)
    /\ IF unzipErr
       THEN /\ wg' = skipFile(wg)
            \* history: the files that were not sent to the pool
            /\ ops' = [ops EXCEPT !.skipped = @ \cup {dispIdx}]
            /\ UNCHANGED diskQueue
       ELSE /\ Len(diskQueue) < DiskQueueCap
            /\ diskQueue' = Append(diskQueue, dispIdx)
            /\ UNCHANGED <<wg, ops>>
    /\ dispIdx' = dispIdx + 1
    /\ UNCHANGED <<a, cacheDir, disk, cache, remote, runs, pc, ghRelease, asset,
                   buf, status, logs, zipRd, delIdx, walkIdx, extractFiles, topLevelDirs,
                   unzipErr, running, pre, made, lastRun, allOk, lastExtract, fnVars,
                   amVars, sideVars>>

\* spawnTaskPool worker: receive a task from the channel
DiskTake ==
    /\ Cardinality(running) < DiskTasks
    /\ diskQueue # << >>
    /\ running' = running \cup {Head(diskQueue)}
    /\ diskQueue' = Tail(diskQueue)
    \* history: the tasks that start after a failure was recorded
    /\ ops' = IF unzipErr THEN [ops EXCEPT !.late = @ \cup {Head(diskQueue)}] ELSE ops
    /\ UNCHANGED <<a, cacheDir, disk, cache, remote, runs, pc, ghRelease, asset,
                   buf, status, logs, zipRd, delIdx, walkIdx, extractFiles, topLevelDirs,
                   dispIdx, unzipErr, wg, pre, made, lastRun, allOk, lastExtract, fnVars, amVars, sideVars>>

\* outcomes of unzipFile: the file is written, opening the entry or the
\* destination fails (nothing is created), or the copy or flush fails (the
\* file is left created or truncated)
UnzipOutcomes(dest) ==
    IF OpenFileOk(disk, dest) THEN {"ok", "openerr", "copyerr"} ELSE {"openerr"}

\* spawnTaskPool worker: run the task: unzipFile, unzipErr.Store on failure,
\* wg.Done
DiskRun(t) ==
    /\ t \in running
    /\ LET dest == PathOf(addonsDir \o extractFiles[t])
       IN  \E out \in UnzipOutcomes(dest) :
             /\ disk' = IF out = "openerr" THEN disk
                        ELSE WriteFile(disk, dest)
             /\ ops' = IF out = "openerr" THEN ops
                       ELSE [ops EXCEPT !.writes = @ \cup {dest}]
             /\ made' = IF out = "openerr" THEN made ELSE made \cup {dest}
             /\ unzipErr' = (unzipErr \/ out # "ok")
    /\ wg' = wg - 1
    /\ running' = running \ {t}
    /\ UNCHANGED <<a, cacheDir, cache, remote, runs, pc, ghRelease, asset, buf,
                   status, logs, zipRd, delIdx, walkIdx, extractFiles, topLevelDirs,
                   dispIdx, diskQueue, pre, lastRun, allOk, lastExtract, fnVars, amVars, sideVars>>

\* a variant that records the resolved asset whatever extractZip returned
recordUpdateAlways(addon, resolved, err) ==
    [addon EXCEPT !.Version = resolved.Version,
                  !.UpdatedOn = resolved.UpdatedAt,
                  !.RefSha = resolved.RefSha]

\* update after extractZip returned err: return the status on an error, else
\* replace Version, UpdatedOn and RefSha
recordUpdate(addon, resolved, err) ==
    IF err # nil THEN addon
    ELSE [addon EXCEPT !.Version = resolved.Version,
                       !.UpdatedOn = resolved.UpdatedAt,
                       !.RefSha = resolved.RefSha]

\* a variant that does not wait for the tasks it queued
waitReturnsAtOnce(counter) == TRUE

\* wg.Wait() returns: the counter is zero
waitReturns(counter) == counter = 0

\* extractZip: wg.Wait() returns, extractZip returns, update records or fails
FinishExtract ==
    /\ pc = "dispatch"
    /\ dispIdx > Len(extractFiles)
    /\ waitReturns(wg)
    /\ LET err == IF unzipErr THEN "error unzipping archive" ELSE nil
       IN  /\ a' = recordUpdate(a, asset, err)
           /\ IF err # nil
              THEN Fail("error extracting update") /\ UNCHANGED ops
              ELSE /\ Logf("extracted")
                   /\ ops' = [ops EXCEPT !.recorded = TRUE]
                   /\ pc' = "done"
                   /\ UNCHANGED status
    /\ UNCHANGED <<cacheDir, disk, cache, remote, runs, ghRelease, asset, buf,
                   extractVars, pre, made, lastRun, allOk, lastExtract, fnVars, amVars, sideVars>>

\* update returns its status to UpdateAddons: the task closes the log channel,
\* resets the buffer and returns it to the pool; the locals of update and
\* extractZip are gone
ReturnUpdate ==
    /\ pc = "done"
    /\ pc' = "idle"
    /\ runs' = runs + 1
    /\ allOk' = (allOk /\ status.err = nil)
    /\ lastRun' = IF status.err # nil THEN "other"
                  ELSE IF ops.recorded THEN "recorded"
                  ELSE lastRun
    /\ status' = [err |-> nil]
    /\ logs' = << >>
    /\ buf' = NoBytes
    /\ asset' = NoAsset
    /\ ghRelease' = NoRelease
    /\ zipRd' = << >>
    /\ delIdx' = 1
    /\ walkIdx' = 1
    /\ extractFiles' = << >>
    /\ topLevelDirs' = {}
    /\ dispIdx' = 1
    /\ unzipErr' = FALSE
    /\ pre' = a
    /\ ops' = NoOps
    /\ lastExtract' = IF ops.downloads = 0 THEN lastExtract
                      ELSE IF status.err # nil THEN NoExtract
                      ELSE [ok |-> TRUE, zip |-> zipRd, dirs |-> a.ExtractedDirs,
                            files |-> disk]
    /\ UNCHANGED <<a, cacheDir, disk, cache, remote, wg, diskQueue, running,
                   made, fnVars, amVars, sideVars>>

\* the project publishes another version between two runs of the updater: the
\* latest release and the tag list change.  Only the first fetch of a run
\* reads them; the manifest and the archive are fetched from urls that name
\* their version, so a change during a run acts as one after it.
Publish ==
    /\ pc = "idle"
    /\ remote' \in (1..MaxVer) \ {remote}
    /\ lastRun' = "other"
    /\ UNCHANGED <<a, cacheDir, disk, cache, runs, pc, ghRelease, asset, buf, status, logs,
                   extractVars, pre, ops, made, allOk, lastExtract, fnVars, amVars, sideVars>>

Next ==
    \/ StartUpdate
    \/ GetTaggedRelease
    \/ FetchManifest
    \/ GetTaggedRef
    \/ HasUpdate
    \/ DownloadZip
    \/ OpenZip
    \/ RemoveExtracted
    \/ ResetExtracted
    \/ WalkEntry
    \/ StartExtract
    \/ Dispatch
    \/ DiskTake
    \/ \E t \in 1..Len(extractFiles) : DiskRun(t)
    \/ FinishExtract
    \/ ReturnUpdate
    \/ Publish

Spec == Init /\ [][Next]_vars

(***************************************************************************)
(* The pure functions on their own: the initial state draws the arguments, *)
(* an action applies the function.                                         *)
(***************************************************************************)
\* directory rules as load leaves them, and archive paths
Prefixes == { <<"d1", "/">>, <<"d1", "/", "s", "/">>, <<"d2", "/">> }
RuleLists == UNION { [1..n -> Prefixes] : n \in 0..MaxRules }
ArchivePaths ==
    { <<"d1", "/">>, <<"d1", "/", "a.lua">>, <<"d1", "/", "s", "/", "x.lua">>,
      <<"d2", "/", "b.lua">>, <<"d3", "/", "c.lua">>, <<"r.txt">> }

SkipUnzipCalls ==
    [fn : {"skipUnzip"}, includeDirs : RuleLists, excludeDirs : RuleLists,
     filename : ArchivePaths]

\* stored states and resolved assets: timestamps and refs of the versions
Times == 0..MaxVer
Refs == {Empty} \cup {ServedRefs(n)[n].Ref : n \in 1..MaxVer}

HasUpdateCalls ==
    [fn : {"hasUpdate"}, UpdatedOn : Times, RefSha : Refs,
     asset : [RelType : {GhRelease, GhTag}, UpdatedAt : Times, RefSha : Refs]]

\* assets of a release: name and content type, as decoded (Version empty,
\* RelType zero)
PoolAsset(name, contentType) ==
    [NoAsset EXCEPT !.Name = name, !.ContentType = contentType,
                    !.DownloadUrl = <<"dl", "/">> \o name, !.UpdatedAt = 1]
PoolAssets ==
    { PoolAsset(<<"addon", ".zip">>, "application/zip"),
      PoolAsset(<<"other", ".zip">>, "application/zip"),
      PoolAsset(<<"addon", "-", "classic", ".zip">>, "application/zip"),
      PoolAsset(<<"addon", "-", "Classic", ".zip">>, "application/zip"),
      PoolAsset(<<"addon", "-", "CATA", ".zip">>, "application/zip"),
      PoolAsset(<<"pack", ".zip">>, "application/tar") }
Pools == UNION { [1..n -> PoolAssets] : n \in 0..MaxAssets }

\* entries of a release.json and the manifests made of them; the empty
\* manifest stands for a release without release.json
ManifestEntries ==
    { [Version |-> <<"1", ".0">>, Filename |-> <<"addon", ".zip">>,
       Metadata |-> << [Flavor |-> "mainline", Interface |-> 110002] >>],
      [Version |-> <<"2", ".0">>, Filename |-> <<"addon", "-", "classic", ".zip">>,
       Metadata |-> << [Flavor |-> "cata", Interface |-> 40400],
                       [Flavor |-> "mainline", Interface |-> 110002] >>],
      [Version |-> <<"3", ".0">>, Filename |-> <<"other", ".zip">>,
       Metadata |-> << [Flavor |-> "classic", Interface |-> 11501] >>],
      [Version |-> <<"4", ".0">>, Filename |-> <<"pack", ".zip">>,
       Metadata |-> << [Flavor |-> "mainline", Interface |-> 110002] >>],
      [Version |-> <<"5", ".0">>, Filename |-> <<"missing", ".zip">>,
       Metadata |-> << [Flavor |-> "mainline", Interface |-> 110002] >>],
      [Version |-> <<"6", ".0">>, Filename |-> <<"other", ".zip">>,
       Metadata |-> << [Flavor |-> "mainline_", Interface |-> 110002] >>] }
Manifests == { << >> } \cup { <<e>> : e \in ManifestEntries }
             \cup { <<e, f>> : e \in ManifestEntries, f \in ManifestEntries }

FindTaggedRelCalls ==
    [fn : {"findTaggedRel"},
     ghRelease : [TagName : {<<"v1", ".tag">>}, Assets : Pools],
     addonReleases : [Releases : Manifests]]

\* tag lists: the tags of the versions, the same with the newest tag moved
\* to another commit, the newest tag alone, and the list of the one tag 31
MovedRefs(n) == [ServedRefs(n) EXCEPT ![n].Sha = <<"moved">>]
RefLists ==
    {ServedRefs(n) : n \in 0..MaxVer}
    \cup {MovedRefs(n) : n \in 1..MaxVer}
    \cup {<<ServedRefs(n)[n]>> : n \in 1..MaxVer}
    \cup { << [Ref |-> <<"refs", "/", "tags", "/", "31">>, Sha |-> <<"abc">>] >>,
           << [Ref |-> <<"refs", "/", "tags", "/", "31">>, Sha |-> <<"abc">>],
              [Ref |-> <<"v2">>, Sha |-> <<"def">>] >> }

FindTaggedRefCalls == [fn : {"findTaggedRef"}, ghRefs : RefLists]

\* calls of cacheDownloadTask for the release document of the add-on: the
\* buffer empty or holding the bytes of an earlier fetch, a cache root or
\* none, the cache holding no file, the file asked for (as an earlier run
\* wrote it, or as one whose request failed left it) or another file
RelFileNm == <<"addon", "-rel.json">>
CacheStates ==
    { << >>,
      [k \in {RelFileNm} |-> Bytes("rel", ServedRelease(1))],
      [k \in {RelFileNm} |-> BadBytes],
      [k \in {<<"addon", "-ref.json">>} |-> Bytes("ref", ServedRefs(1))] }
CacheDownloadCalls ==
    [fn : {"cacheDownloadTask"},
     prior : {NoBytes, BadBytes, Bytes("ref", ServedRefs(1))},
     cacheRoot : {Empty, <<"cache">>},
     files : CacheStates,
     served : {Bytes("rel", ServedRelease(n)) : n \in 1..2},
     net : NetOutcomes]

(***************************************************************************)
(* getTaggedRelease and getTaggedRef as functions of the bodies fetched.   *)
(***************************************************************************)
\* the JSON value null
NullBytes == Bytes("null", 0)

\* json.Unmarshal(a.buf.Bytes(), &t) returns an error
unmarshalErr(body) == body.kind \in {"bad", "empty", "leftover"}

\* json.Unmarshal(a.buf.Bytes(), &t) of the body null: no error, and t, a
\* pointer, is nil
unmarshalsToNil(body) == body.kind = "null"

\* a nil pointer is dereferenced: the goroutine panics
NilDeref == [fault |-> TRUE, err |-> nil, asset |-> NoAsset]
Resolves(res) == [fault |-> FALSE, err |-> res.err, asset |-> res.asset]
ResolveErr(msg) == [fault |-> FALSE, err |-> msg, asset |-> NoAsset]

\* Addon.getTaggedRelease, relBody and manBody being what the two requests
\* leave in the buffer: [fault, err, asset]
getTaggedRelease(relBody, manBody) ==
    IF unmarshalErr(relBody) THEN ResolveErr("error fetching update info")
    ELSE IF unmarshalsToNil(relBody) THEN NilDeref
    ELSE IF IndexFunc(relBody.val.Assets, releaseManifest) # 0
    THEN IF unmarshalErr(manBody) THEN ResolveErr("error fetching release manifest")
         ELSE IF unmarshalsToNil(manBody) THEN NilDeref
         ELSE Resolves(findTaggedRel(relBody.val, manBody.val))
    ELSE Resolves(findTaggedRel(relBody.val, [Releases |-> << >>]))

\* Addon.getTaggedRef, body being what the request leaves in the buffer
getTaggedRef(addon, body) ==
    IF unmarshalErr(body) THEN ResolveErr("error fetching tagged ref")
    ELSE IF unmarshalsToNil(body) THEN NilDeref
    ELSE Resolves(findTaggedRef(addon, body.val))

RelBodies == { Bytes("rel", ServedRelease(n)) : n \in 1..2 } \cup {NullBytes, BadBytes}
ManBodies == { Bytes("manifest", ServedManifest(2)), NullBytes, BadBytes }
RefBodies == { Bytes("ref", ServedRefs(n)) : n \in 0..2 } \cup {NullBytes, BadBytes}
GetTaggedCalls ==
    [fn : {"getTaggedRelease"}, rel : RelBodies, man : ManBodies]
    \cup [fn : {"getTaggedRef"}, refs : RefBodies]

(***************************************************************************)
(* The configuration: AddonManagerCfg.validate and AddonManagerCfg.load as *)
(* functions of the configuration read.  " " is a run of white space.      *)
(***************************************************************************)
\* GhAssetType: GhRelease is 0, GhTag is 1, GhEnd closes the variants
GhEnd == 2
MaxNetTasks == 8
MaxDiskTasks == 4096
DefaultNetTasks == 2
DefaultDiskTasks == 32

\* validate: name := addon.NameCfg without a leading '-'
canonicalName(nameCfg) ==
    IF Len(nameCfg) > 0 /\ Head(nameCfg) = "-" THEN Tail(nameCfg) ELSE nameCfg

\* strings.Count(s, "/")
Count(s) == Cardinality({ i \in 1..Len(s) : s[i] = "/" })

RECURSIVE TrimLeft(_)
TrimLeft(s) == IF s # << >> /\ Head(s) = " " THEN TrimLeft(Tail(s)) ELSE s
RECURSIVE TrimRight(_)
TrimRight(s) ==
    IF s # << >> /\ s[Len(s)] = " " THEN TrimRight(SubSeq(s, 1, Len(s) - 1)) ELSE s
\* strings.TrimSpace(s)
TrimSpace(s) == TrimRight(TrimLeft(s))

\* clamp(lowerBound, n, upperBound)
clamp(lowerBound, n, upperBound) ==
    IF n < lowerBound THEN lowerBound
    ELSE IF n > upperBound THEN upperBound
    ELSE n

\* a variant that only looks for the separator
nameErrsUntrimmed(name) ==
    \/ IndexByte(name) = 1
    \/ IndexByte(name) = Len(name)
    \/ Count(name) # 1

\* validate: the name is misformatted, or is empty or white space
nameErrs(name) ==
    \/ IndexByte(name) = 1
    \/ IndexByte(name) = Len(name)
    \/ Count(name) # 1
    \/ TrimSpace(name) \in { << >>, <<"/">> }

\* validate: found empty directory
emptyDir(dir) == TrimSpace(dir) \in { << >>, <<"-">> }

\* a variant that leaves the directory as it is written
withTrailingSlashKept(dir) == dir

\* validate: ensure dirs have a trailing '/'
withTrailingSlash(dir) == IF dir[Len(dir)] # "/" THEN dir \o <<"/">> ELSE dir

RECURSIVE validateDirs(_, _)
\* the loop of validate over addon.Dirs from the k-th on, which breaks at an
\* empty directory: the directories as the loop leaves them
validateDirs(dirs, k) ==
    IF k > Len(dirs) \/ emptyDir(dirs[k]) THEN dirs
    ELSE validateDirs([dirs EXCEPT ![k] = withTrailingSlash(dirs[k])], k + 1)

RECURSIVE validateAddons(_, _, _)
\* the loop of validate over cfg.Addons from the k-th on; seen are the names of
\* the add-ons before: [err, Addons], err whether an add-on had errors
validateAddons(addons, k, seen) ==
    IF k > Len(addons) THEN [err |-> FALSE, Addons |-> addons]
    ELSE LET addon == addons[k]
             name == canonicalName(addon.NameCfg)
             errs == \/ name \in seen
                     \/ nameErrs(name)
                     \/ addon.RelType >= GhEnd
                     \/ \E i \in 1..Len(addon.Dirs) : emptyDir(addon.Dirs[i])
             rest == validateAddons(
                       [addons EXCEPT ![k] = [addon EXCEPT !.Name = name,
                                                           !.Dirs = validateDirs(addon.Dirs, 1)]],
                       k + 1, seen \cup {name})
         IN  [rest EXCEPT !.err = errs \/ rest.err]

\* cfg.validate(), but for the UpdateInfo records: [err, cfg]
validate(c) ==
    LET r == validateAddons(c.Addons, 1, {})
    IN  [err |-> r.err,
         cfg |-> [Addons |-> r.Addons,
                  NetTasks |-> clamp(0, c.NetTasks, MaxNetTasks),
                  DiskTasks |-> clamp(0, c.DiskTasks, MaxDiskTasks)]]

\* slices.Reverse
RECURSIVE Reverse(_)
Reverse(s) == IF s = << >> THEN << >> ELSE Reverse(Tail(s)) \o <<Head(s)>>

\* a variant that leaves the excluded directories as the loop placed them
excludedInOrderKept(placed) == placed

\* slices.Reverse(dirs[inclIdx:]): the excluded directories, placed from the
\* end of dirs backwards, in the order of the configuration
excludedInOrder(placed) == Reverse(placed)

RECURSIVE splitDirs(_, _, _, _)
\* the loop of load over addon.Dirs from the k-th on: incl is dirs[:inclIdx],
\* excl is dirs[exclIdx+1:]
splitDirs(dirs, k, incl, excl) ==
    IF k > Len(dirs) THEN [includeDirs |-> incl, excludeDirs |-> excludedInOrder(excl)]
    ELSE IF Head(dirs[k]) = "-"
    THEN splitDirs(dirs, k + 1, incl, <<Tail(dirs[k])>> \o excl)
    ELSE splitDirs(dirs, k + 1, Append(incl, dirs[k]), excl)

\* a variant that keeps the number of goroutines as configured
effectiveTasksKept(n, default) == n

\* load: if am.NetTasks == 0 { am.NetTasks = DefaultNetTasks }
effectiveTasks(n, default) == IF n = 0 THEN default ELSE n

\* cfg.load(), but for the UpdateInfo records and the cache directory
load(c) ==
    [Addons |-> [k \in 1..Len(c.Addons) |->
                    LET addon == c.Addons[k]
                        split == splitDirs(addon.Dirs, 1, << >>, << >>)
                    IN  [Name |-> addon.Name,
                         skip |-> Head(addon.NameCfg) = "-",
                         shortName |-> SubSeq(addon.Name, IndexByte(addon.Name) + 1, Len(addon.Name)),
                         includeDirs |-> split.includeDirs,
                         excludeDirs |-> split.excludeDirs]],
     NetTasks |-> effectiveTasks(c.NetTasks, DefaultNetTasks),
     DiskTasks |-> effectiveTasks(c.DiskTasks, DefaultDiskTasks),
     cfgVars |-> [netTasks |-> c.NetTasks, diskTasks |-> c.DiskTasks]]

\* SaveAddonCfg: NetTasks and DiskTasks of the configuration written
savedTasks(manager) ==
    [NetTasks |-> manager.cfgVars.netTasks, DiskTasks |-> manager.cfgVars.diskTasks]

\* LoadAddonManagerCfg: validate, then load unless validate returned an error
LoadAddonManagerCfg(c) ==
    LET v == validate(c)
    IN  [err |-> v.err, cfg |-> v.cfg,
         am |-> IF v.err THEN [Addons |-> << >>] ELSE load(v.cfg)]

\* names an add-on is configured with: well formed, skipped, and misformatted
\* in each way
CfgNames ==
    { <<"proj", "/", "addon1">>, <<"-", "proj", "/", "addon1">>, <<"proj", "/", "addon2">>,
      << >>, <<"-">>, <<"/">>, <<" ">>, <<" ", "/", " ">>, <<"-", " ", "/", " ">>,
      <<"/", "addon1">>, <<"proj", "/">>, <<"proj">>, <<"proj", "/", "a", "/", "b">>,
      <<" ", "/", "addon1">> }
\* directories as configured: with and without the trailing '/', excluded
GoodDirs == { <<"dir1">>, <<"-", "dir2">>, <<"dir3", "/">>, <<"-", "dir4", "/">>, <<"-", "/">> }
BadDirs == { << >>, <<" ">>, <<"-">>, <<" ", "-", " ">> }
CfgDirLists ==
    UNION { [1..n -> GoodDirs] : n \in 0..MaxRules }
    \cup { << <<"dir1">>, <<"-", "dir2">>, <<"dir3", "/">> >>,
           << <<"-", "dir2">>, <<"dir1">>, <<"-", "dir4", "/">>, <<"-", "dir1">> >> }
    \cup { <<bad>> : bad \in BadDirs }
    \cup { << <<"dir1">>, bad, <<"-", "dir2">> >> : bad \in BadDirs }
AddonCfgs == [NameCfg : CfgNames, Name : {Empty}, Dirs : CfgDirLists, RelType : 0..(GhEnd + 1)]
\* add-ons configured together
AddonCfgsTogether ==
    { [NameCfg |-> <<"proj", "/", "addon1">>, Name |-> Empty, Dirs |-> << >>, RelType |-> 0],
      [NameCfg |-> <<"-", "proj", "/", "addon1">>, Name |-> Empty,
       Dirs |-> << <<"dir1">>, <<"-", "dir2">> >>, RelType |-> 1],
      [NameCfg |-> <<"proj", "/", "addon2">>, Name |-> Empty, Dirs |-> << >>, RelType |-> 0],
      [NameCfg |-> <<"proj", "/", "addon2">>, Name |-> Empty, Dirs |-> << << >> >>, RelType |-> 0],
      [NameCfg |-> <<" ", "/", " ">>, Name |-> Empty, Dirs |-> << >>, RelType |-> GhEnd] }
LoadCfgCalls ==
    [fn : {"LoadAddonManagerCfg"}, Addons : { <<c>> : c \in AddonCfgs },
     NetTasks : {0}, DiskTasks : {0}]
    \cup [fn : {"LoadAddonManagerCfg"},
          Addons : UNION { [1..n -> AddonCfgsTogether] : n \in 0..MaxAddons },
          NetTasks : {0, DefaultNetTasks}, DiskTasks : {0, DefaultDiskTasks}]
    \cup [fn : {"LoadAddonManagerCfg"}, Addons : { << >> },
          NetTasks : {-1, 0, 1, MaxNetTasks, MaxNetTasks + 1},
          DiskTasks : {-1, 0, 1, MaxDiskTasks, MaxDiskTasks + 1}]

InitFn ==
    /\ a = NewAddon([includeDirs |-> << >>, excludeDirs |-> << >>], GhRelease, FALSE)
    /\ cacheDir = Empty
    /\ disk = << >>
    /\ cache = << >>
    /\ remote = 1
    /\ runs = 0
    /\ Idle
    /\ made = {}
    /\ lastRun = "none"
    /\ allOk = TRUE
    /\ lastExtract = NoExtract
    /\ fnArgs \in SkipUnzipCalls \cup HasUpdateCalls \cup FindTaggedRelCalls
                   \cup FindTaggedRefCalls \cup CacheDownloadCalls \cup LoadCfgCalls
                   \cup GetTaggedCalls
    /\ fnRes = NoResult
    /\ AmIdle
    /\ SideIdle

CallSkipUnzip ==
    /\ fnArgs.fn = "skipUnzip"
    /\ ~fnRes.done
    /\ fnRes' = [done |-> TRUE,
                 val |-> skipUnzip([includeDirs |-> fnArgs.includeDirs,
                                    excludeDirs |-> fnArgs.excludeDirs], fnArgs.filename)]
    /\ UNCHANGED <<updVars, amVars, sideVars, fnArgs>>

CallHasUpdate ==
    /\ fnArgs.fn = "hasUpdate"
    /\ ~fnRes.done
    /\ fnRes' = [done |-> TRUE,
                 val |-> hasUpdate([UpdatedOn |-> fnArgs.UpdatedOn, RefSha |-> fnArgs.RefSha],
                                   fnArgs.asset)]
    /\ UNCHANGED <<updVars, amVars, sideVars, fnArgs>>

CallFindTaggedRel ==
    /\ fnArgs.fn = "findTaggedRel"
    /\ ~fnRes.done
    /\ fnRes' = [done |-> TRUE, val |-> findTaggedRel(fnArgs.ghRelease, fnArgs.addonReleases)]
    /\ UNCHANGED <<updVars, amVars, sideVars, fnArgs>>

CallFindTaggedRef ==
    /\ fnArgs.fn = "findTaggedRef"
    /\ ~fnRes.done
    /\ fnRes' = [done |-> TRUE, val |-> findTaggedRef(a, fnArgs.ghRefs)]
    /\ UNCHANGED <<updVars, amVars, sideVars, fnArgs>>

CallCacheDownloadTask ==
    /\ fnArgs.fn = "cacheDownloadTask"
    /\ ~fnRes.done
    /\ fnRes' = [done |-> TRUE,
                 val |-> cacheDownloadTask(fnArgs.prior, fnArgs.cacheRoot, fnArgs.files,
                                           RelFileNm, fnArgs.served, fnArgs.net)]
    /\ UNCHANGED <<updVars, amVars, sideVars, fnArgs>>

CallLoadAddonManagerCfg ==
    /\ fnArgs.fn = "LoadAddonManagerCfg"
    /\ ~fnRes.done
    /\ fnRes' = [done |-> TRUE,
                 val |-> LoadAddonManagerCfg([Addons |-> fnArgs.Addons,
                                              NetTasks |-> fnArgs.NetTasks,
                                              DiskTasks |-> fnArgs.DiskTasks])]
    /\ UNCHANGED <<updVars, amVars, sideVars, fnArgs>>

CallGetTaggedRelease ==
    /\ fnArgs.fn = "getTaggedRelease"
    /\ ~fnRes.done
    /\ fnRes' = [done |-> TRUE, val |-> getTaggedRelease(fnArgs.rel, fnArgs.man)]
    /\ UNCHANGED <<updVars, amVars, sideVars, fnArgs>>

CallGetTaggedRef ==
    /\ fnArgs.fn = "getTaggedRef"
    /\ ~fnRes.done
    /\ fnRes' = [done |-> TRUE, val |-> getTaggedRef(a, fnArgs.refs)]
    /\ UNCHANGED <<updVars, amVars, sideVars, fnArgs>>

NextFn ==
    \/ CallSkipUnzip
    \/ CallHasUpdate
    \/ CallFindTaggedRel
    \/ CallFindTaggedRef
    \/ CallCacheDownloadTask
    \/ CallLoadAddonManagerCfg
    \/ CallGetTaggedRelease
    \/ CallGetTaggedRef

SpecFn == InitFn /\ [][NextFn]_vars

(***************************************************************************)
(* AddonManager.UpdateAddons: the add-ons of a manager updated by the      *)
(* tasks of one updatePool.  Each task runs Addon.update for its add-on; the     *)
(* add-ons share the cache directory.  extractZip, specified step by step  *)
(* in Spec, is one step here with the outcome it returns.                  *)
(***************************************************************************)
\* names add-ons are configured with; validate rejects a name given twice
\* but not two projects with the same add-on name
ManagedNames ==
    { << <<"proj", "/", "addon1">>, <<"proj", "/", "addon2">>, <<"other", "/", "addon1">> >>,
      << <<"proj", "/", "addon1">>, <<"other", "/", "addon1">>, <<"proj", "/", "addon2">> >> }
AddonLists ==
    { SubSeq(names, 1, n) : names \in ManagedNames,
                            n \in { k \in 1..MaxAddons : k <= 3 } }

\* load: the Addon of a configured name, seen for the first time; shortName is
\* the name after the '/'
LoadAddon(name, relType) ==
    [NewAddon([includeDirs |-> << >>, excludeDirs |-> << >>], relType, FALSE)
        EXCEPT !.Name = name,
               !.shortName = SubSeq(name, IndexByte(name) + 1, Len(name))]

\* spawnTaskResPool(am.NetTasks+2, len(am.Addons)): goroutines of the pool
UpdateThreads == NetTasks + 2

\* every repository serves the documents and archives of AddonName: the body
\* served at a download url built from the add-on's own name
ArchiveFor(addon, url) ==
    LET own == <<"https://github.com/">> \o addon.Name
    IN  IF HasPrefix(url, own)
        THEN ServedArchive(<<"https://github.com/">> \o AddonName
                           \o SubSeq(url, Len(own) + 1, Len(url)))
        ELSE ServedArchive(url)

\* the task of an add-on: not yet taken by a goroutine of the pool
NoTask == [pc |-> "queued", err |-> nil, asset |-> NoAsset, ghRelease |-> NoRelease,
           buf |-> NoBytes, clean |-> TRUE, bufId |-> 0]

N == Len(am.Addons)
\* add-ons whose task a goroutine of the pool is running
Busy == { i \in 1..N : upd[i].pc \in {"check", "manifest", "download", "extract", "done"} }
IdleThreads == UpdateThreads - Cardinality(Busy) - updatePool.exited
\* close(resultsCh) once every goroutine of the pool has returned
ResultsClosed == updatePool.exited = UpdateThreads

InitAddons ==
    /\ a = NewAddon([includeDirs |-> << >>, excludeDirs |-> << >>], GhRelease, FALSE)
    /\ cacheDir = Empty
    /\ disk = << >>
    /\ cache = << >>
    /\ remote = 1
    /\ runs = 0
    /\ Idle
    /\ made = {}
    /\ lastRun = "none"
    /\ allOk = TRUE
    /\ lastExtract = NoExtract
    /\ FnIdle
    /\ \E names \in AddonLists, relType \in {GhRelease, GhTag},
          root \in {Empty, <<"cache">>}, latest \in 1..2 :
          am = [Addons |-> [i \in 1..Len(names) |-> LoadAddon(names[i], relType)],
                CacheDir |-> root, cache |-> << >>, remote |-> latest,
                bufs |-> [k \in 1..Len(names) |-> NoBytes]]
    /\ upd = [i \in 1..Len(am.Addons) |-> NoTask]
    /\ updatePool = NoPool
    /\ SideIdle

\* update returns status for add-on i; clean records whether every request
\* and extraction of its own succeeded
Returns(i, err, ownOk) ==
    upd' = [upd EXCEPT ![i].pc = "done", ![i].err = err,
                       ![i].clean = upd[i].clean /\ ownOk]

\* a request is made for fileNm: no cache directory, or no such cache file
Requests(fileNm) == am.CacheDir = Empty \/ fileNm \notin DOMAIN am.cache

\* update after checkUpdate returned resolved for add-on i: compare, then
\* download or return
Compared(i, r, resolved, ownOk) ==
    IF afterCompare(hasUpdate(am.Addons[i], resolved), am.Addons[i].skip).pc = "download"
    THEN upd' = [upd EXCEPT ![i].pc = "download", ![i].asset = resolved,
                            ![i].buf = r.buf, ![i].clean = upd[i].clean /\ ownOk]
    ELSE upd' = [upd EXCEPT ![i].pc = "done", ![i].asset = resolved,
                            ![i].buf = r.buf, ![i].clean = upd[i].clean /\ ownOk]

\* for _, addon := range am.Addons: updateTasks <- task of the next add-on
SendTask ==
    /\ am # NoManager
    /\ updatePool.sent < N
    /\ updatePool' = [updatePool EXCEPT !.sent = @ + 1, !.tasks = Append(@, updatePool.sent + 1)]
    /\ UNCHANGED <<updVars, fnVars, sideVars, am, upd>>

\* close(updateTasks)
CloseTasks ==
    /\ am # NoManager
    /\ updatePool.sent = N
    /\ ~updatePool.closed
    /\ updatePool' = [updatePool EXCEPT !.closed = TRUE]
    /\ UNCHANGED <<updVars, fnVars, sideVars, am, upd>>

\* a variant of the buffer pool that may hand out a buffer a task still holds
bufPoolGetAny(all, held) == all

\* bufPool.Get(): a buffer put back earlier or one made by New, never one that
\* was got and not yet put back; all is every buffer New can make.  A buffer
\* is reset before it is put back, so the buffers not held are all empty and
\* alike: the first of them stands for whichever Get returns
bufPoolGet(all, held) ==
    LET free == all \ held
    IN  { id \in free : \A other \in free : id <= other }

\* buffers got from bufPool by tasks that have not put them back
HeldBufs == { upd[i].bufId : i \in 1..N } \ {0}

\* a goroutine of the pool receives a task, which gets its buffer from bufPool
\* and calls update for its add-on
TakeTask ==
    /\ updatePool.tasks # << >>
    /\ IdleThreads > 0
    /\ \E id \in bufPoolGet(DOMAIN am.bufs, HeldBufs) :
         upd' = [upd EXCEPT ![Head(updatePool.tasks)].pc = "check",
                            ![Head(updatePool.tasks)].bufId = id]
    /\ updatePool' = [updatePool EXCEPT !.tasks = Tail(@)]
    /\ UNCHANGED <<updVars, fnVars, sideVars, am>>

\* a goroutine of the pool finds the task channel closed and empty and returns
ThreadExit ==
    /\ updatePool.closed
    /\ updatePool.tasks = << >>
    /\ IdleThreads > 0
    /\ updatePool' = [updatePool EXCEPT !.exited = @ + 1]
    /\ UNCHANGED <<updVars, fnVars, sideVars, am, upd>>

\* update of add-on i: checkUpdate by the configured strategy, then compare
CheckUpdate(i) ==
    /\ upd[i].pc = "check"
    /\ \E net \in NetOutcomes :
         LET addon == am.Addons[i]
             tagged == addon.RelType = GhTag
             fileNm == addon.shortName \o (IF tagged THEN <<"-ref.json">> ELSE <<"-rel.json">>)
             served == IF tagged THEN Bytes("ref", ServedRefs(am.remote))
                       ELSE Bytes("rel", ServedRelease(am.remote))
             r == fetchJson(am.bufs[upd[i].bufId], am.CacheDir, am.cache, fileNm, served, net)
             ownOk == ~Requests(fileNm) \/ net = "ok"
         IN  /\ am' = [am EXCEPT !.cache = r.cache, !.bufs[upd[i].bufId] = r.buf]
             /\ IF r.err # nil
                THEN Returns(i, "could not find update data", ownOk)
                ELSE IF tagged /\ r.buf.kind = "ref"
                THEN LET res == findTaggedRef(addon, r.buf.val)
                     IN  IF res.err # nil
                         THEN Returns(i, "could not find update data", ownOk)
                         ELSE Compared(i, r, res.asset, ownOk)
                ELSE IF ~tagged /\ r.buf.kind = "rel"
                THEN IF IndexFunc(r.buf.val.Assets, releaseManifest) # 0
                     THEN upd' = [upd EXCEPT ![i].pc = "manifest",
                                             ![i].ghRelease = r.buf.val,
                                             ![i].clean = upd[i].clean /\ ownOk]
                     ELSE LET res == findTaggedRel(r.buf.val, [Releases |-> << >>])
                          IN  IF res.err # nil
                              THEN Returns(i, "could not find update data", ownOk)
                              ELSE Compared(i, r, res.asset, ownOk)
                ELSE Returns(i, "could not find update data", ownOk)
    /\ UNCHANGED <<updVars, fnVars, sideVars, updatePool>>

\* getTaggedRelease of add-on i: fetch release.json, findTaggedRel, compare
FetchManifestOf(i) ==
    /\ upd[i].pc = "manifest"
    /\ \E net \in NetOutcomes :
         LET addon == am.Addons[i]
             rel == upd[i].ghRelease
             relAsset == rel.Assets[IndexFunc(rel.Assets, releaseManifest)]
             fileNm == addon.shortName \o <<"-addonRel.json">>
             r == fetchJson(am.bufs[upd[i].bufId], am.CacheDir, am.cache, fileNm,
                            Bytes("manifest", ServedManifest(relAsset.UpdatedAt)), net)
             ownOk == ~Requests(fileNm) \/ net = "ok"
         IN  /\ am' = [am EXCEPT !.cache = r.cache, !.bufs[upd[i].bufId] = r.buf]
             /\ IF r.err # nil \/ r.buf.kind # "manifest"
                THEN Returns(i, "could not find update data", ownOk)
                ELSE LET res == findTaggedRel(rel, r.buf.val)
                     IN  IF res.err # nil
                         THEN Returns(i, "could not find update data", ownOk)
                         ELSE Compared(i, r, res.asset, ownOk)
    /\ UNCHANGED <<updVars, fnVars, sideVars, updatePool>>

\* update of add-on i: downloadZip
DownloadZipOf(i) ==
    /\ upd[i].pc = "download"
    /\ \E net \in NetOutcomes :
         LET addon == am.Addons[i]
             fileNm == addon.shortName \o <<"-">> \o upd[i].asset.Name
             r == cacheDownloadTask(am.bufs[upd[i].bufId], am.CacheDir, am.cache, fileNm,
                                    ArchiveFor(addon, upd[i].asset.DownloadUrl), net)
             ownOk == ~Requests(fileNm) \/ net = "ok"
         IN  /\ am' = [am EXCEPT !.cache = r.cache, !.bufs[upd[i].bufId] = r.buf]
             /\ IF r.err # nil
                THEN Returns(i, "unable to download update", ownOk)
                ELSE upd' = [upd EXCEPT ![i].pc = "extract", ![i].buf = r.buf,
                                        ![i].clean = upd[i].clean /\ ownOk]
    /\ UNCHANGED <<updVars, fnVars, sideVars, updatePool>>

\* update of add-on i: extractZip returns, update records or fails
ExtractZipOf(i) ==
    /\ upd[i].pc = "extract"
    /\ \E ok \in BOOLEAN :
         LET archive == am.bufs[upd[i].bufId]
             err == IF archive.kind # "zip" \/ ~ok
                    THEN "error extracting update" ELSE nil
         IN  /\ am' = [am EXCEPT !.Addons[i] = recordUpdate(@, upd[i].asset, err)]
             /\ Returns(i, err, archive.kind # "zip" \/ ok)
    /\ UNCHANGED <<updVars, fnVars, sideVars, updatePool>>

\* the task of add-on i returns its status, its buffer reset and put back;
\* the goroutine sends the status on the result channel, whose capacity is
\* the number of add-ons
ReturnStatus(i) ==
    /\ upd[i].pc = "done"
    /\ Len(updatePool.results) < N
    /\ updatePool' = [updatePool EXCEPT !.results = Append(@, [addon |-> i, err |-> upd[i].err])]
    /\ upd' = [upd EXCEPT ![i].pc = "returned", ![i].bufId = 0]
    /\ am' = [am EXCEPT !.bufs[upd[i].bufId] = NoBytes]
    /\ UNCHANGED <<updVars, fnVars, sideVars>>

\* for status := range updateRes
ReceiveStatus ==
    /\ updatePool.results # << >>
    /\ updatePool' = [updatePool EXCEPT !.results = Tail(@),
                            !.received = Append(@, Head(updatePool.results))]
    /\ UNCHANGED <<updVars, fnVars, sideVars, am, upd>>

NextAddons ==
    \/ SendTask
    \/ CloseTasks
    \/ TakeTask
    \/ ThreadExit
    \/ \E i \in 1..N : CheckUpdate(i)
    \/ \E i \in 1..N : FetchManifestOf(i)
    \/ \E i \in 1..N : DownloadZipOf(i)
    \/ \E i \in 1..N : ExtractZipOf(i)
    \/ \E i \in 1..N : ReturnStatus(i)
    \/ ReceiveStatus

SpecAddons == InitAddons /\ [][NextAddons]_vars

(***************************************************************************)
(* A task pool of thread_pool.go on its own: spawnTaskPool, or             *)
(* spawnTaskResPool when tp.res holds.  The caller submits tp.k units,     *)
(* closes the task channel or calls cancel; the units of tp.faulty panic   *)
(* when run.  The goroutines are alike: tp.running and tp.sending hold the *)
(* units of those inside task() and of those sending a result.             *)
(***************************************************************************)
\* a variant that counts every goroutine that has not returned as idle
idleThreadsUnbounded(p) == p.threads - p.exited

\* goroutines of the pool waiting in select
idleThreads(p) == p.threads - Cardinality(p.running) - Cardinality(p.sending) - p.exited

\* a variant that returns as soon as the task channel is closed
drainedAtClose(p) == p.closed

\* task, ok := <-tasksCh gives !ok: the channel is closed and empty
drained(p) == p.closed /\ p.queue = << >>

NewPool(threads, capacity, res, k, faulty) ==
    [threads |-> threads, cap |-> capacity, res |-> res, k |-> k,
     faulty |-> faulty \cap (1..k),
     sent |-> 0, queue |-> << >>, closed |-> FALSE, cancelled |-> FALSE,
     crashed |-> FALSE, running |-> {}, sending |-> {}, exited |-> 0,
     results |-> << >>, resClosed |-> FALSE,
     \* the consumer: results of each unit it has received
     received |-> [u \in 1..k |-> 0],
     \* history: times each unit was run, units started after cancel, most
     \* units inside task() at once
     ran |-> [u \in 1..k |-> 0], late |-> {}, peak |-> 0]

\* the pools spawned: spawnTaskPool with a capacity of one (am.NetTasks of a
\* single network worker) or of 12, given up to MaxUnits units;
\* spawnTaskResPool with a capacity of one or of the number of add-ons
PoolShapes ==
    { NewPool(threads, capacity, FALSE, k, faulty) :
        threads \in 1..MaxThreads, capacity \in {1, DiskQueueCap},
        k \in 0..MaxUnits, faulty \in {{}, {2}} }
    \cup
    { NewPool(threads, capacity, TRUE, k, faulty) :
        threads \in 1..MaxThreads, capacity \in {1, MaxAddons + 1},
        k \in 0..(MaxAddons + 1), faulty \in {{}, {2}} }

InitPool ==
    /\ a = NewAddon([includeDirs |-> << >>, excludeDirs |-> << >>], GhRelease, FALSE)
    /\ cacheDir = Empty
    /\ disk = << >>
    /\ cache = << >>
    /\ remote = 1
    /\ runs = 0
    /\ Idle
    /\ made = {}
    /\ lastRun = "none"
    /\ allOk = TRUE
    /\ lastExtract = NoExtract
    /\ FnIdle
    /\ AmIdle
    /\ fan = NoFan
    /\ cfg = NoCfg
    /\ run = NoRun
    /\ tp \in PoolShapes

\* the process is alive: no unit has panicked
Alive == tp # NoTaskPool /\ ~tp.crashed

\* tasks <- unit: the caller queues the next unit
Submit ==
    /\ Alive
    /\ ~tp.closed
    /\ tp.sent < tp.k
    /\ Len(tp.queue) < tp.cap
    /\ tp' = [tp EXCEPT !.sent = @ + 1, !.queue = Append(@, tp.sent + 1)]
    /\ UNCHANGED <<updVars, fnVars, amVars, fan, cfg, run>>

\* close(tasks) once every unit is queued
CloseSubmission ==
    /\ Alive
    /\ ~tp.closed
    /\ tp.sent = tp.k
    /\ tp' = [tp EXCEPT !.closed = TRUE]
    /\ UNCHANGED <<updVars, fnVars, amVars, fan, cfg, run>>

\* cancel(): close(cancelCh)
Cancel ==
    /\ Alive
    /\ ~tp.cancelled
    /\ tp' = [tp EXCEPT !.cancelled = TRUE]
    /\ UNCHANGED <<updVars, fnVars, amVars, fan, cfg, run>>

\* select takes case task, ok := <-tasksCh with a unit: the goroutine calls
\* task().  With cancelCh closed as well, select chooses among the ready cases
PoolTake ==
    /\ Alive
    /\ idleThreads(tp) > 0
    /\ tp.queue # << >>
    /\ LET u == Head(tp.queue)
       IN  tp' = [tp EXCEPT !.queue = Tail(@),
                            !.running = @ \cup {u},
                            !.late = IF tp.cancelled THEN @ \cup {u} ELSE @,
                            !.peak = IF Cardinality(tp.running) + 1 > @
                                     THEN Cardinality(tp.running) + 1 ELSE @]
    /\ UNCHANGED <<updVars, fnVars, amVars, fan, cfg, run>>

\* select takes case <-cancelCh: the goroutine returns
ExitCancelled ==
    /\ Alive
    /\ idleThreads(tp) > 0
    /\ tp.cancelled
    /\ tp' = [tp EXCEPT !.exited = @ + 1]
    /\ UNCHANGED <<updVars, fnVars, amVars, fan, cfg, run>>

\* select takes case task, ok := <-tasksCh with !ok: the goroutine returns
ExitDrained ==
    /\ Alive
    /\ idleThreads(tp) > 0
    /\ drained(tp)
    /\ tp' = [tp EXCEPT !.exited = @ + 1]
    /\ UNCHANGED <<updVars, fnVars, amVars, fan, cfg, run>>

\* task() returns: the goroutine loops, or goes on to send the result
PoolRun(u) ==
    /\ Alive
    /\ u \in tp.running
    /\ u \notin tp.faulty
    /\ tp' = [tp EXCEPT !.running = @ \ {u},
                        !.ran[u] = @ + 1,
                        !.sending = IF tp.res THEN @ \cup {u} ELSE @]
    /\ UNCHANGED <<updVars, fnVars, amVars, fan, cfg, run>>

\* task() panics: no goroutine of the pool recovers, the process exits
PoolPanic(u) ==
    /\ Alive
    /\ u \in tp.running
    /\ u \in tp.faulty
    /\ tp' = [tp EXCEPT !.crashed = TRUE]
    /\ UNCHANGED <<updVars, fnVars, amVars, fan, cfg, run>>

\* resultsCh <- res
SendResult(u) ==
    /\ Alive
    /\ u \in tp.sending
    /\ Len(tp.results) < tp.cap
    /\ tp' = [tp EXCEPT !.sending = @ \ {u}, !.results = Append(@, u)]
    /\ UNCHANGED <<updVars, fnVars, amVars, fan, cfg, run>>

\* doneWg.Wait(); close(resultsCh)
CloseResults ==
    /\ Alive
    /\ tp.res
    /\ ~tp.resClosed
    /\ tp.exited = tp.threads
    /\ tp' = [tp EXCEPT !.resClosed = TRUE]
    /\ UNCHANGED <<updVars, fnVars, amVars, fan, cfg, run>>

\* the consumer: for res := range results
ReceiveResult ==
    /\ Alive
    /\ tp.results # << >>
    /\ tp' = [tp EXCEPT !.results = Tail(@), !.received[Head(tp.results)] = @ + 1]
    /\ UNCHANGED <<updVars, fnVars, amVars, fan, cfg, run>>

\* the steps of a pool whose caller does not cancel
PoolStep ==
    \/ Submit
    \/ CloseSubmission
    \/ PoolTake
    \/ ExitDrained
    \/ \E u \in 1..tp.k : PoolRun(u)
    \/ \E u \in 1..tp.k : SendResult(u)
    \/ CloseResults
    \/ ReceiveResult

NextPool ==
    \/ PoolStep
    \/ Cancel
    \/ ExitCancelled
    \/ \E u \in 1..tp.k : PoolPanic(u)

SpecPool == InitPool /\ [][NextPool]_vars

(***************************************************************************)
(* The log channels of UpdateAddons: one buffered channel per add-on, sent *)
(* on logsCh in configuration order; the update task of an add-on logs its *)
(* lines with Logf and closes its channel when it returns; one goroutine   *)
(* prints.  Of an update only the lines it logs are kept: line n of add-on *)
(* i is <<i, n>>, the blank line after the block of add-on i is <<i, 0>>.  *)
(***************************************************************************)
NewFan(lines) ==
    [lines |-> lines,
     chans |-> [i \in 1..Len(lines) |-> [buf |-> << >>, closed |-> FALSE]],
     task |-> [i \in 1..Len(lines) |-> "unsent"],
     emitted |-> [i \in 1..Len(lines) |-> 0],
     sent |-> 0, printing |-> FALSE, cur |-> 1, out |-> << >>]

FanN == Len(fan.lines)

\* a variant that prints from the last channel holding a line
printerReadsLatest(f) ==
    LET ready == { i \in 1..Len(f.lines) : f.chans[i].buf # << >> }
    IN  IF ready = {} THEN f.cur ELSE CHOOSE i \in ready : \A j \in ready : j <= i

\* for logCh := range logsCh: the channel the printing goroutine reads
printerReads(f) == f.cur

InitLogs ==
    /\ a = NewAddon([includeDirs |-> << >>, excludeDirs |-> << >>], GhRelease, FALSE)
    /\ cacheDir = Empty
    /\ disk = << >>
    /\ cache = << >>
    /\ remote = 1
    /\ runs = 0
    /\ Idle
    /\ made = {}
    /\ lastRun = "none"
    /\ allOk = TRUE
    /\ lastExtract = NoExtract
    /\ FnIdle
    /\ AmIdle
    /\ tp = NoTaskPool
    /\ cfg = NoCfg
    /\ run = NoRun
    /\ \E lines \in UNION { [1..n -> 1..MaxLines] : n \in 0..MaxAddons } :
          fan = NewFan(lines)

\* one iteration of the loop over am.Addons: make the add-on's log channel,
\* send it on logsCh, send the add-on's task on updateTasks
FanSend ==
    /\ fan # NoFan
    /\ fan.sent < FanN
    /\ fan' = [fan EXCEPT !.sent = @ + 1, !.task[fan.sent + 1] = "queued"]
    /\ UNCHANGED <<updVars, fnVars, amVars, tp, cfg, run>>

\* close(updateTasks); close(logsCh); go func() { ... }: printing starts
FanStartPrinter ==
    /\ fan # NoFan
    /\ fan.sent = FanN
    /\ ~fan.printing
    /\ fan' = [fan EXCEPT !.printing = TRUE]
    /\ UNCHANGED <<updVars, fnVars, amVars, tp, cfg, run>>

\* a variant that closes the channel when the task starts: close(logs)
\* without defer
logsClosedUndeferred(task) == task \in {"running", "returned"}

\* the task of UpdateAddons, defer close(logs): the channel is closed once the
\* task has returned
logsClosed(task) == task = "returned"

\* a goroutine of the update pool receives the oldest queued task
FanTaskStart(i) ==
    /\ fan.task[i] = "queued"
    /\ \A j \in 1..(i - 1) : fan.task[j] # "queued"
    /\ Cardinality({ j \in 1..FanN : fan.task[j] = "running" }) < UpdateThreads
    /\ fan' = [fan EXCEPT !.task[i] = "running", !.chans[i].closed = logsClosed("running")]
    /\ UNCHANGED <<updVars, fnVars, amVars, tp, cfg, run>>

\* Addon.Logf: a.logs <- msg
FanLogf(i) ==
    /\ fan.task[i] = "running"
    /\ fan.emitted[i] < fan.lines[i]
    /\ Len(fan.chans[i].buf) < LogCap
    /\ fan' = [fan EXCEPT !.emitted[i] = @ + 1,
                          !.chans[i].buf = Append(@, <<i, fan.emitted[i] + 1>>)]
    /\ UNCHANGED <<updVars, fnVars, amVars, tp, cfg, run>>

\* the task returns: defer close(logs)
FanTaskReturn(i) ==
    /\ fan.task[i] = "running"
    /\ fan.emitted[i] = fan.lines[i]
    /\ fan' = [fan EXCEPT !.task[i] = "returned", !.chans[i].closed = logsClosed("returned")]
    /\ UNCHANGED <<updVars, fnVars, amVars, tp, cfg, run>>

\* for log := range logCh { fmt.Print(log) }
FanPrint ==
    /\ fan # NoFan
    /\ fan.printing
    /\ fan.cur <= FanN
    /\ LET c == printerReads(fan)
       IN  /\ fan.chans[c].buf # << >>
           /\ fan' = [fan EXCEPT !.chans[c].buf = Tail(@),
                                 !.out = Append(@, Head(fan.chans[c].buf))]
    /\ UNCHANGED <<updVars, fnVars, amVars, tp, cfg, run>>

\* the add-on's channel is closed and empty: fmt.Println(), next channel
FanEndBlock ==
    /\ fan # NoFan
    /\ fan.printing
    /\ fan.cur <= FanN
    /\ fan.chans[fan.cur].buf = << >>
    /\ fan.chans[fan.cur].closed
    /\ fan' = [fan EXCEPT !.cur = @ + 1, !.out = Append(@, <<fan.cur, 0>>)]
    /\ UNCHANGED <<updVars, fnVars, amVars, tp, cfg, run>>

NextLogs ==
    \/ FanSend
    \/ FanStartPrinter
    \/ \E i \in 1..FanN : FanTaskStart(i)
    \/ \E i \in 1..FanN : FanLogf(i)
    \/ \E i \in 1..FanN : FanTaskReturn(i)
    \/ FanPrint
    \/ FanEndBlock

SpecLogs == InitLogs /\ [][NextLogs]_vars

(***************************************************************************)
(* The configuration file: validate, load, the updates of a run as far as  *)
(* they write the AddonUpdateInfo records, SaveAddonCfg.  A record is an   *)
(* index into cfg.heap; UpdateInfo maps a name to a record or to 0 (nil).  *)
(***************************************************************************)
\* names as written in the file: a leading '-' marks an add-on as skipped
NamesCfg == { <<"proj", "/", "addon1">>, <<"-", "proj", "/", "addon1">>,
              <<"proj", "/", "addon2">> }
StaleName == <<"proj", "/", "gone">>

\* the UpdateInfo maps a file can hold: under a name null (0) or a record of
\* its own, which json.Unmarshal allocates
ReadNames == << <<"proj", "/", "addon1">>, <<"proj", "/", "addon2">>, StaleName >>
ReadHeap == [k \in 1..Len(ReadNames) |-> [Version |-> k]]
ReadInfos ==
    UNION { { [n \in { ReadNames[k] : k \in ks } |->
                 IF n \in { ReadNames[k] : k \in nulls } THEN 0
                 ELSE CHOOSE k \in ks : ReadNames[k] = n] : nulls \in SUBSET ks } :
            ks \in SUBSET (1..Len(ReadNames)) }

RECURSIVE createMissing(_, _, _)
\* the loop of validate over cfg.Addons from the k-th on: create UpdateInfo
\* if not found
createMissing(c, names, k) ==
    IF k > Len(names) THEN c
    ELSE LET name == canonicalName(names[k])
         IN  IF name \in DOMAIN c.UpdateInfo /\ c.UpdateInfo[name] # 0
             THEN createMissing(c, names, k + 1)
             ELSE createMissing(
                    [c EXCEPT !.heap = Append(@, [Version |-> 0]),
                              !.UpdateInfo = [n \in DOMAIN @ \cup {name} |->
                                                IF n = name THEN Len(c.heap) + 1 ELSE @[n]]],
                    names, k + 1)

\* validate returns an error: a name is given twice
duplicateAddons(names) ==
    \E i, j \in 1..Len(names) : i # j /\ canonicalName(names[i]) = canonicalName(names[j])

\* the last add-on of the manager named n
lastNamed(addons, n) ==
    CHOOSE i \in 1..Len(addons) :
        /\ addons[i].Name = n
        /\ \A j \in 1..Len(addons) : addons[j].Name = n => j <= i

\* a variant that writes the map it read, with the entries of the add-ons
savedInfoKeepsRead(addons, read) ==
    [n \in DOMAIN read \cup { addons[i].Name : i \in 1..Len(addons) } |->
        IF \E i \in 1..Len(addons) : addons[i].Name = n
        THEN addons[lastNamed(addons, n)].info
        ELSE read[n]]

\* SaveAddonCfg: cfg.UpdateInfo[addon.Name] = addon.AddonUpdateInfo for the
\* add-ons of the manager, in a new map
savedInfo(addons, read) ==
    [n \in { addons[i].Name : i \in 1..Len(addons) } |->
        addons[lastNamed(addons, n)].info]

InitCfg ==
    /\ a = NewAddon([includeDirs |-> << >>, excludeDirs |-> << >>], GhRelease, FALSE)
    /\ cacheDir = Empty
    /\ disk = << >>
    /\ cache = << >>
    /\ remote = 1
    /\ runs = 0
    /\ Idle
    /\ made = {}
    /\ lastRun = "none"
    /\ allOk = TRUE
    /\ lastExtract = NoExtract
    /\ FnIdle
    /\ AmIdle
    /\ tp = NoTaskPool
    /\ fan = NoFan
    /\ run = NoRun
    /\ \E names \in UNION { [1..n -> NamesCfg] : n \in 0..MaxAddons }, read \in ReadInfos :
          cfg = [stage |-> "read", Addons |-> names, UpdateInfo |-> read,
                 heap |-> ReadHeap, addons |-> << >>, saved |-> << >>]

\* cfg.validate()
Validate ==
    /\ cfg.stage = "read"
    /\ LET c == createMissing(cfg, cfg.Addons, 1)
       IN  cfg' = [c EXCEPT !.stage = IF duplicateAddons(cfg.Addons)
                                      THEN "rejected" ELSE "validated"]
    /\ UNCHANGED <<updVars, fnVars, amVars, tp, fan, run>>

\* cfg.load(): an Addon per configured add-on, pointing to the record the map
\* holds under its name
Load ==
    /\ cfg.stage = "validated"
    /\ cfg' = [cfg EXCEPT !.stage = "loaded",
                          !.addons = [i \in 1..Len(cfg.Addons) |->
                                        [Name |-> canonicalName(cfg.Addons[i]),
                                         info |-> cfg.UpdateInfo[canonicalName(cfg.Addons[i])],
                                         updated |-> FALSE]]]
    /\ UNCHANGED <<updVars, fnVars, amVars, tp, fan, run>>

\* update of add-on i installs a release: a.Version = asset.Version
InstallVersion(i) ==
    /\ cfg.stage = "loaded"
    /\ ~cfg.addons[i].updated
    /\ cfg' = [cfg EXCEPT !.addons[i].updated = TRUE,
                          !.heap[cfg.addons[i].info].Version = MaxVer + i]
    /\ UNCHANGED <<updVars, fnVars, amVars, tp, fan, run>>

\* am.SaveAddonCfg(filename)
SaveAddonCfg ==
    /\ cfg.stage = "loaded"
    /\ cfg' = [cfg EXCEPT !.stage = "saved",
                          !.saved = savedInfo(cfg.addons, cfg.UpdateInfo)]
    /\ UNCHANGED <<updVars, fnVars, amVars, tp, fan, run>>

NextCfg ==
    \/ Validate
    \/ Load
    \/ \E i \in 1..Len(cfg.addons) : InstallVersion(i)
    \/ SaveAddonCfg

SpecCfg == InitCfg /\ [][NextCfg]_vars

(***************************************************************************)
(* One call of UpdateAddons as a system of goroutines that block and wake  *)
(* each other: the submitting loop, the update workers, the network and    *)
(* disk workers, one log channel per add-on, the printer and the loop that *)
(* receives the results.  What a step computes is left out (the other      *)
(* specifications have it); what it waits for is kept.  Every HTTP request *)
(* and file operation returns, with either outcome.                        *)
(***************************************************************************)
\* files of one archive that extractZip dispatches
MaxFiles == 2

\* update and one log channel, before the task is sent
NewUpdate == [pc |-> "unsent", req |-> "none", left |-> 0, wgc |-> 0,
              unzipErr |-> FALSE, lines |-> 0, closed |-> FALSE]

\* UpdateAddons, the three pools and logsCh just made
NewRun(n) ==
    [n |-> n, stage |-> "submit", sent |-> 0, tasks |-> << >>, exited |-> 0,
     upd |-> [i \in 1..n |-> NewUpdate],
     netQueue |-> << >>,
     results |-> 0, received |-> 0, resClosed |-> FALSE, cur |-> 1]

RunN == run.n
\* the process runs: UpdateAddons has been called and no goroutine has panicked
RunLive == run.stage \in {"submit", "collect"}
\* the update workers that hold a task
RunBusy == { i \in 1..RunN : run.upd[i].pc \notin {"unsent", "queued", "returned"} }
\* the file tasks of add-on i that are in the disk channel or with a disk worker:
\* those counted by wg.Add that were neither skipped nor finished
RunQueued(i) == run.upd[i].wgc - run.upd[i].left
RECURSIVE RunDiskQueued(_)
RunDiskQueued(i) == IF i = 0 THEN 0 ELSE RunQueued(i) + RunDiskQueued(i - 1)

InitRun ==
    /\ a = NewAddon([includeDirs |-> << >>, excludeDirs |-> << >>], GhRelease, FALSE)
    /\ cacheDir = Empty
    /\ disk = << >>
    /\ cache = << >>
    /\ remote = 1
    /\ runs = 0
    /\ Idle
    /\ made = {}
    /\ lastRun = "none"
    /\ allOk = TRUE
    /\ lastExtract = NoExtract
    /\ FnIdle
    /\ AmIdle
    /\ tp = NoTaskPool
    /\ fan = NoFan
    /\ cfg = NoCfg
    /\ \E n \in 0..MaxAddons : run = NewRun(n)

\* UpdateAddons, the loop over am.Addons: updateTasks <- ..., logsCh <- logs
RunSubmit ==
    /\ run.stage = "submit"
    /\ run.sent < RunN
    /\ Len(run.tasks) < RunN
    /\ run' = [run EXCEPT !.sent = @ + 1, !.tasks = Append(@, run.sent + 1),
                          !.upd[run.sent + 1].pc = "queued"]
    /\ UNCHANGED <<updVars, fnVars, amVars, tp, fan, cfg>>

\* UpdateAddons: close(updateTasks); close(logsCh); the printer is started
RunCloseTasks ==
    /\ run.stage = "submit"
    /\ run.sent = RunN
    /\ run' = [run EXCEPT !.stage = "collect"]
    /\ UNCHANGED <<updVars, fnVars, amVars, tp, fan, cfg>>

\* spawnTaskResPool, a worker: task, ok := <-tasksCh with a task
RunTake ==
    /\ RunLive
    /\ run.tasks # << >>
    /\ Cardinality(RunBusy) + run.exited < UpdateThreads
    /\ run' = [run EXCEPT !.tasks = Tail(@), !.upd[Head(run.tasks)].pc = "logChecking"]
    /\ UNCHANGED <<updVars, fnVars, amVars, tp, fan, cfg>>

\* spawnTaskResPool, a worker: tasksCh is closed and empty, doneWg.Done()
RunWorkerExit ==
    /\ run.stage = "collect"
    /\ run.tasks = << >>
    /\ Cardinality(RunBusy) + run.exited < UpdateThreads
    /\ run' = [run EXCEPT !.exited = @ + 1]
    /\ UNCHANGED <<updVars, fnVars, amVars, tp, fan, cfg>>

\* where update goes on after each of its log lines
AfterLine(at) ==
    CASE at = "logChecking" -> "request"
      [] at = "logDownloading" -> "download"
      [] at = "logUnzipping" -> "extract"
      [] at \in {"logNoUpdate", "logError", "logExtracted"} -> "return"

\* Addon.Logf, Addon.Errorf: a.logs <- line, which waits while the channel is full
RunLogf(i) ==
    /\ RunLive
    /\ run.upd[i].pc \in {"logChecking", "logDownloading", "logUnzipping", "logNoUpdate",
                          "logError", "logExtracted"}
    /\ run.upd[i].lines < LogCap
    /\ run' = [run EXCEPT !.upd[i].lines = @ + 1,
                          !.upd[i].pc = AfterLine(run.upd[i].pc)]
    /\ UNCHANGED <<updVars, fnVars, amVars, tp, fan, cfg>>

\* cacheDownload: a.netTasks <- func, which waits while the channel is full
RunRequest(i) ==
    /\ RunLive
    /\ run.upd[i].pc \in {"request", "manifest", "download"}
    /\ run.upd[i].req = "none"
    /\ Len(run.netQueue) < NetTasks
    /\ run' = [run EXCEPT !.netQueue = Append(@, i), !.upd[i].req = "queued"]
    /\ UNCHANGED <<updVars, fnVars, amVars, tp, fan, cfg>>

\* spawnTaskPool, a network worker and one task of cacheDownload: it receives
\* the task, cacheDownloadTask returns, wg.Done().  The task waits for no other
\* goroutine, so what the workers do at the same time is one task after another.
RunNetTask ==
    /\ RunLive
    /\ NetTasks > 0
    /\ run.netQueue # << >>
    /\ run' = [run EXCEPT !.netQueue = Tail(@), !.upd[Head(run.netQueue)].req = "done"]
    /\ UNCHANGED <<updVars, fnVars, amVars, tp, fan, cfg>>

\* cacheDownload: wg.Wait() returns; update goes on with what checkUpdate or
\* downloadZip returned.  checkUpdate may fetch once more (the release
\* manifest), and it dereferences what fetchJson decoded: a nil document is a
\* panic on this goroutine, which nothing recovers, and the process ends.
RunFetched(i) ==
    /\ RunLive
    /\ run.upd[i].pc \in {"request", "manifest", "download"}
    /\ run.upd[i].req = "done"
    /\ \E next \in CASE run.upd[i].pc = "request" ->
                          {"manifest", "logError", "logNoUpdate", "logDownloading", "panic"}
                     [] run.upd[i].pc = "manifest" ->
                          {"logError", "logNoUpdate", "logDownloading", "panic"}
                     [] run.upd[i].pc = "download" -> {"logError", "logUnzipping"} :
          run' = [run EXCEPT !.upd[i].req = "none", !.upd[i].pc = next,
                             !.stage = IF next = "panic" THEN "crashed" ELSE @]
    /\ UNCHANGED <<updVars, fnVars, amVars, tp, fan, cfg>>

\* extractZip up to wg.Add(len(extractFiles)), or its return with an error before
RunExtract(i) ==
    /\ RunLive
    /\ run.upd[i].pc = "extract"
    /\ \/ run' = [run EXCEPT !.upd[i].pc = "logError"]
       \/ \E files \in 0..MaxFiles :
             run' = [run EXCEPT !.upd[i].pc = "dispatch", !.upd[i].left = files,
                                !.upd[i].wgc = files]
    /\ UNCHANGED <<updVars, fnVars, amVars, tp, fan, cfg>>

\* extractZip, one turn of the loop over extractFiles: wg.Done() once an error
\* is known, a.diskTasks <- func otherwise, which waits while the channel is full
RunDispatch(i) ==
    /\ RunLive
    /\ run.upd[i].pc = "dispatch"
    /\ run.upd[i].left > 0
    /\ IF run.upd[i].unzipErr
       THEN run' = [run EXCEPT !.upd[i].left = @ - 1, !.upd[i].wgc = @ - 1]
       ELSE /\ RunDiskQueued(RunN) < DiskQueueCap
            /\ run' = [run EXCEPT !.upd[i].left = @ - 1]
    /\ UNCHANGED <<updVars, fnVars, amVars, tp, fan, cfg>>

\* spawnTaskPool, a disk worker and one task of extractZip: it receives the
\* task, unzipFile returns, unzipErr.Store(true) when it failed, the deferred
\* wg.Done().  Several workers finish what they received in any order.
RunDiskTask(i) ==
    /\ RunLive
    /\ DiskTasks > 0
    /\ RunQueued(i) > 0
    /\ \E ok \in BOOLEAN :
          run' = [run EXCEPT !.upd[i].unzipErr = @ \/ ~ok, !.upd[i].wgc = @ - 1]
    /\ UNCHANGED <<updVars, fnVars, amVars, tp, fan, cfg>>

\* extractZip: wg.Wait() returns
RunExtracted(i) ==
    /\ RunLive
    /\ run.upd[i].pc = "dispatch"
    /\ run.upd[i].left = 0
    /\ waitReturns(run.upd[i].wgc)
    /\ run' = [run EXCEPT !.upd[i].pc = IF run.upd[i].unzipErr THEN "logError"
                                        ELSE "logExtracted"]
    /\ UNCHANGED <<updVars, fnVars, amVars, tp, fan, cfg>>

\* the task of UpdateAddons after addon.update(): close(addon.logs)
RunReturn(i) ==
    /\ RunLive
    /\ run.upd[i].pc = "return"
    /\ run' = [run EXCEPT !.upd[i].pc = "result", !.upd[i].closed = TRUE]
    /\ UNCHANGED <<updVars, fnVars, amVars, tp, fan, cfg>>

\* spawnTaskResPool, a worker: resultsCh <- res, which waits while the channel
\* is full
RunResult(i) ==
    /\ RunLive
    /\ run.upd[i].pc = "result"
    /\ run.results < RunN
    /\ run' = [run EXCEPT !.upd[i].pc = "returned", !.results = @ + 1]
    /\ UNCHANGED <<updVars, fnVars, amVars, tp, fan, cfg>>

\* spawnTaskResPool: doneWg.Wait() returns, close(resultsCh)
RunCloseResults ==
    /\ run.stage = "collect"
    /\ ~run.resClosed
    /\ run.exited = UpdateThreads
    /\ run' = [run EXCEPT !.resClosed = TRUE]
    /\ UNCHANGED <<updVars, fnVars, amVars, tp, fan, cfg>>

\* UpdateAddons: for status := range updateRes, one status
RunReceive ==
    /\ run.stage = "collect"
    /\ run.results > 0
    /\ run' = [run EXCEPT !.results = @ - 1, !.received = @ + 1]
    /\ UNCHANGED <<updVars, fnVars, amVars, tp, fan, cfg>>

\* the printer: for log := range logs, one line
RunPrint ==
    /\ run.stage = "collect"
    /\ run.cur <= RunN
    /\ run.upd[run.cur].lines > 0
    /\ run' = [run EXCEPT !.upd[run.cur].lines = @ - 1]
    /\ UNCHANGED <<updVars, fnVars, amVars, tp, fan, cfg>>

\* the printer: the channel is closed and empty, on to the next one
RunEndBlock ==
    /\ run.stage = "collect"
    /\ run.cur <= RunN
    /\ run.upd[run.cur].lines = 0
    /\ run.upd[run.cur].closed
    /\ run' = [run EXCEPT !.cur = @ + 1]
    /\ UNCHANGED <<updVars, fnVars, amVars, tp, fan, cfg>>

\* UpdateAddons returns: the range over updateRes ended, logTasksWg.Wait() returned
RunDone ==
    /\ run.stage = "collect"
    /\ run.resClosed
    /\ run.results = 0
    /\ run.cur > RunN

NextRun ==
    \/ RunSubmit
    \/ RunCloseTasks
    \/ RunTake
    \/ RunWorkerExit
    \/ \E i \in 1..RunN : RunLogf(i)
    \/ \E i \in 1..RunN : RunRequest(i)
    \/ RunNetTask
    \/ \E i \in 1..RunN : RunFetched(i)
    \/ \E i \in 1..RunN : RunExtract(i)
    \/ \E i \in 1..RunN : RunDispatch(i)
    \/ \E i \in 1..RunN : RunDiskTask(i)
    \/ \E i \in 1..RunN : RunExtracted(i)
    \/ \E i \in 1..RunN : RunReturn(i)
    \/ \E i \in 1..RunN : RunResult(i)
    \/ RunCloseResults
    \/ RunReceive
    \/ RunPrint
    \/ RunEndBlock

SpecRun == InitRun /\ [][NextRun]_vars

\* The Go scheduler runs every goroutine that can take a step, and a request
\* or a file operation under way returns: no step stays possible for ever
\* without one being taken.
SpecRunFair == SpecRun /\ WF_vars(NextRun)

(***************************************************************************)
(* Properties of Addon.update and Addon.extractZip.                        *)
(***************************************************************************)
\* update has downloaded an archive and returns without an error: extractZip
\* returned nil
ExtractOk == pc = "done" /\ status.err = nil /\ ops.downloads > 0

\* Version, UpdatedOn and RefSha of an add-on
Recorded(x) == <<x.Version, x.UpdatedOn, x.RefSha>>

\* q lies in a directory of the destination root that ExtractedDirs names
Owned(q) ==
    \E i \in 1..Len(a.ExtractedDirs) : IsUnder(q, DestRoot \o PathOf(a.ExtractedDirs[i]))

\* the elements of a sequence, each once, in order of first appearance
RECURSIVE FirstAppearance(_, _)
FirstAppearance(names, seen) ==
    IF names = << >> THEN << >>
    ELSE IF Head(names) \in seen THEN FirstAppearance(Tail(names), seen)
    ELSE <<Head(names)>> \o FirstAppearance(Tail(names), seen \cup {Head(names)})

\* the top-level directory names of the entries of an archive that pass the
\* inclusion test and lie in a directory, in order of first appearance
TopLevelNames(zip, addon) ==
    LET inDir(f) == ~skipUnzip(addon, f) /\ IndexByte(f) > 0
        kept == SelectSeq(zip, inDir)
    IN  FirstAppearance([i \in 1..Len(kept) |-> SubSeq(kept[i], 1, IndexByte(kept[i]) - 1)],
                        {})

\* the directory part of an archive path, with its trailing separator
DirPart(f) == SubSeq(f, 1, LastIndexByte(f))

\* C1: when update returns a status with a non-nil error, whatever the step
\* that failed, the add-on's UpdateInfo (Version, UpdatedOn, RefSha and
\* ExtractedDirs) equals its value before update was called.
C1_FailedUpdateKeepsUpdateInfo ==
    (pc = "done" /\ status.err # nil) => UpdateInfo(a) = UpdateInfo(pre)

\* an update that fails after extractZip emptied the ExtractedDirs of the
\* previous run
C1_Diverges ==
    /\ pc = "done"
    /\ status.err # nil
    /\ pre.ExtractedDirs # << >>
    /\ a.ExtractedDirs = << >>
    /\ Recorded(a) = Recorded(pre)

\* C2: after an update that succeeded and recorded the resolved asset, a second
\* update against the unchanged remote downloads no archive, deletes no
\* directory, creates no directory, writes no file, leaves UpdateInfo as it is
\* and, when it returns without an error, has reported that no update was found.
C2_SecondRunIdempotent ==
    (lastRun = "recorded" /\ pc # "idle") =>
        /\ ops = NoOps
        /\ UpdateInfo(a) = UpdateInfo(pre)
        /\ (pc = "done" /\ status.err = nil) => logs[Len(logs)] = "no update found"

C2_Witness ==
    /\ lastRun = "recorded"
    /\ pc = "done"
    /\ status.err = nil
    /\ a.ExtractedDirs # << >>

\* C3: when update has downloaded and extracted without an error, Version,
\* UpdatedOn and RefSha equal the resolved asset's Version, UpdatedAt and
\* RefSha; in every other state they have the values they had when update was
\* called, so they are replaced only after extractZip returned success.
C3_RecordedAfterExtract ==
    /\ ExtractOk => Recorded(a) = <<asset.Version, asset.UpdatedAt, asset.RefSha>>
    /\ ~ExtractOk => Recorded(a) = Recorded(pre)

C3_Witness == ExtractOk /\ Recorded(a) # Recorded(pre) /\ pre.Version # Empty

\* C4: for an asset of release kind hasUpdate is true exactly when the asset's
\* UpdatedAt is strictly after the stored UpdatedOn; for an asset of tagged-ref
\* kind it is true exactly when the asset's RefSha differs from the stored one.
C4_HasUpdate ==
    (fnArgs.fn = "hasUpdate" /\ fnRes.done) =>
        /\ fnArgs.asset.RelType = GhRelease =>
              (fnRes.val <=> fnArgs.asset.UpdatedAt > fnArgs.UpdatedOn)
        /\ fnArgs.asset.RelType = GhTag =>
              (fnRes.val <=> fnArgs.asset.RefSha # fnArgs.RefSha)

\* equal timestamps give no update, though the refs differ
C4_Witness ==
    /\ fnArgs.fn = "hasUpdate"
    /\ fnRes.done
    /\ fnArgs.asset.RelType = GhRelease
    /\ fnArgs.asset.UpdatedAt = fnArgs.UpdatedOn
    /\ fnArgs.asset.RefSha # fnArgs.RefSha
    /\ ~fnRes.val

\* C5: after any sequence of successful updates, every file and directory
\* that extraction created below the destination root and that still exists
\* lies inside a top-level directory listed in the current ExtractedDirs.
C5_OwnershipDoesNotLeak ==
    (pc = "idle" /\ runs > 0 /\ allOk) =>
        \A q \in made : q \in DOMAIN disk => Owned(q)

\* one successful update has left a file of the archive root that no
\* directory of ExtractedDirs holds
C5_Diverges ==
    /\ pc = "idle"
    /\ runs = 1
    /\ allOk
    /\ \E q \in made : q \in DOMAIN disk /\ Len(q) = Len(DestRoot) + 1 /\ disk[q] = "file"

\* C6: os.RemoveAll has returned success for every directory named in the
\* previous ExtractedDirs before extractZip creates any directory or writes
\* any file; if one removal fails, extractZip returns an error, update fails,
\* and no directory has been created and no file written.
C6_DeleteBeforeCreate ==
    /\ (ops.mkdirs # {} \/ ops.writes # {}) =>
          \A i \in 1..Len(pre.ExtractedDirs) : PathOf(pre.ExtractedDirs[i]) \in ops.removed
    /\ ops.removeFailed =>
          (ops.mkdirs = {} /\ ops.writes = {} /\ pc = "done" /\ status.err # nil)

C6_Witness ==
    /\ Len(pre.ExtractedDirs) > 1
    /\ ops.removed # {}
    /\ ops.writes # {}

\* C7: every path deleted at the start of extractZip is a previously owned
\* directory under the destination root, the root into which the archive is
\* then extracted, with or without a cache root.
C7_DeletesUnderDestinationRoot ==
    \A q \in ops.removed :
        \E i \in 1..Len(pre.ExtractedDirs) : q = DestRoot \o PathOf(pre.ExtractedDirs[i])

\* with a cache root the removal went to the working directory, and the
\* directory of the previous archive is still below the destination root
C7_Diverges ==
    /\ cacheDir # Empty
    /\ pc = "walk"
    /\ \E i \in 1..Len(pre.ExtractedDirs) :
          /\ PathOf(pre.ExtractedDirs[i]) \in ops.removed
          /\ DestRoot \o PathOf(pre.ExtractedDirs[i]) \in DOMAIN disk

\* C8: after a successful extractZip, ExtractedDirs holds exactly the
\* top-level directory names of the archive entries that passed the inclusion
\* test, each once, in order of first appearance.
C8_ExtractedDirsAreTopLevelNames ==
    ExtractOk => a.ExtractedDirs = TopLevelNames(zipRd, a)

\* the archive of d1/a.lua, d2/b.lua, d3/c.lua and d4/d.lua under include d1/,
\* d3/ and exclude d2/: d1/a.lua and d3/c.lua are extracted, ExtractedDirs is
\* empty
C8_Diverges ==
    /\ ExtractOk
    /\ zipRd = ZipExample
    /\ a.includeDirs # << >>
    /\ ops.writes = {<<"d1", "a.lua">>, <<"d3", "c.lua">>}
    /\ a.ExtractedDirs = << >>

\* C9: skipUnzip lets a path be extracted exactly when no exclude prefix is a
\* prefix of the path and the include list is empty or some include prefix is
\* a prefix of the path.
C9_InclusionTest ==
    (fnArgs.fn = "skipUnzip" /\ fnRes.done) =>
        LET inc == {fnArgs.includeDirs[i] : i \in 1..Len(fnArgs.includeDirs)}
            exc == {fnArgs.excludeDirs[i] : i \in 1..Len(fnArgs.excludeDirs)}
        IN  ~fnRes.val <=>
               /\ \A p \in exc : ~HasPrefix(fnArgs.filename, p)
               /\ (inc = {} \/ \E p \in inc : HasPrefix(fnArgs.filename, p))

\* a path that matches an include and an exclude prefix is skipped
C9_Witness ==
    /\ fnArgs.fn = "skipUnzip"
    /\ fnRes.done
    /\ \E i \in 1..Len(fnArgs.includeDirs) : HasPrefix(fnArgs.filename, fnArgs.includeDirs[i])
    /\ \E i \in 1..Len(fnArgs.excludeDirs) : HasPrefix(fnArgs.filename, fnArgs.excludeDirs[i])
    /\ fnRes.val

C11_ExtractTwice ==
    (ExtractOk /\ lastExtract.ok /\ lastExtract.zip = zipRd) =>
        /\ a.ExtractedDirs = lastExtract.dirs
        /\ FirstAppearance(a.ExtractedDirs, {}) = a.ExtractedDirs
        /\ disk = lastExtract.files
        /\ \A q \in made : (q \in DOMAIN disk /\ disk[q] = "dir") => Owned(q)

\* the second extraction removed the directories of the first and wrote the
\* files again
C11_Witness ==
    /\ ExtractOk
    /\ lastExtract.ok
    /\ lastExtract.zip = zipRd
    /\ ops.removed # {}
    /\ ops.writes # {}
    /\ a.ExtractedDirs # << >>

\* C12: when a file extraction has failed, extractZip returns an error and
\* update fails; a file extraction that was still queued when the failure was
\* recorded and starts afterwards writes nothing.
C12_QueuedSkippedAfterFailure ==
    /\ (pc = "done" /\ unzipErr) => status.err # nil
    /\ \A t \in ops.late : PathOf(addonsDir \o extractFiles[t]) \notin ops.writes

\* a task that started after the failure was recorded has written its file
C12_Diverges ==
    /\ pc = "done"
    /\ status.err # nil
    /\ \E t \in ops.late :
          /\ PathOf(addonsDir \o extractFiles[t]) \in ops.writes
          /\ PathOf(addonsDir \o extractFiles[t]) \in DOMAIN disk

\* ---- release and tag resolution (SpecFn) ----

\* the call in progress is findTaggedRel and it has returned
RelReturned == fnArgs.fn = "findTaggedRel" /\ fnRes.done

\* entries of the manifest tagged mainline, and the first of them (0: none)
MainlineEntries(releases) ==
    { i \in 1..Len(releases) :
        \E k \in 1..Len(releases[i].Metadata) :
            releases[i].Metadata[k].Flavor = "mainline" }
FirstMainline(releases) ==
    IF MainlineEntries(releases) = {} THEN 0
    ELSE CHOOSE i \in MainlineEntries(releases) :
            \A j \in MainlineEntries(releases) : i <= j

\* positions of the zip-typed assets of the pool with the given name
ZipsNamed(pool, name) ==
    { i \in 1..Len(pool) :
        pool[i].ContentType = "application/zip" /\ pool[i].Name = name }

\* the pool in another order
Reordered(pool, perm) == [i \in 1..Len(pool) |-> pool[perm[i]]]

\* C13: when the manifest has an entry tagged mainline (the first such entry
\* in manifest order) and the pool holds a zip asset with that entry's
\* filename, findTaggedRel returns that asset, labelled with the entry's
\* version and the kind release-asset, and returns the same for every
\* ordering of the pool.
C13_ManifestResolution ==
    RelReturned =>
        LET releases == fnArgs.addonReleases.Releases
            pool     == fnArgs.ghRelease.Assets
            m        == FirstMainline(releases)
        IN  (m # 0 /\ ZipsNamed(pool, releases[m].Filename) # {}) =>
                /\ fnRes.val.err = nil
                /\ fnRes.val.asset.Name = releases[m].Filename
                /\ fnRes.val.asset.ContentType = "application/zip"
                /\ fnRes.val.asset.Version = releases[m].Version
                /\ fnRes.val.asset.RelType = GhRelease
                /\ \E i \in ZipsNamed(pool, releases[m].Filename) :
                      fnRes.val.asset.DownloadUrl = pool[i].DownloadUrl
                /\ \A perm \in Permutations(1..Len(pool)) :
                      findTaggedRel([fnArgs.ghRelease EXCEPT
                                        !.Assets = Reordered(pool, perm)],
                                    fnArgs.addonReleases) = fnRes.val

\* a manifest of two entries whose second is the first tagged mainline, a
\* pool of three assets whose last is the one named, resolved
C13_Witness ==
    /\ RelReturned
    /\ FirstMainline(fnArgs.addonReleases.Releases) = 2
    /\ Len(fnArgs.ghRelease.Assets) = 3
    /\ ZipsNamed(fnArgs.ghRelease.Assets,
                 fnArgs.addonReleases.Releases[2].Filename) = {3}
    /\ fnArgs.ghRelease.Assets[1].ContentType = "application/zip"
    /\ fnRes.val.err = nil
    /\ fnRes.val.asset.Version = fnArgs.addonReleases.Releases[2].Version

\* C14: when the manifest names a mainline entry and no zip-typed asset of
\* the pool has that entry's filename, findTaggedRel fails and returns no
\* asset, whatever else the pool contains.
C14_ManifestAuthoritative ==
    RelReturned =>
        LET releases == fnArgs.addonReleases.Releases
            pool     == fnArgs.ghRelease.Assets
            m        == FirstMainline(releases)
        IN  (m # 0 /\ ZipsNamed(pool, releases[m].Filename) = {}) =>
                /\ fnRes.val.err = "no matching asset found from release manifest"
                /\ fnRes.val.asset = NoAsset

\* the manifest names a file absent from a pool that holds addon.zip, a zip
\* the fallback would take, and the call has failed
C14_Witness ==
    /\ RelReturned
    /\ FirstMainline(fnArgs.addonReleases.Releases) # 0
    /\ ZipsNamed(fnArgs.ghRelease.Assets,
                 fnArgs.addonReleases.Releases[
                     FirstMainline(fnArgs.addonReleases.Releases)].Filename) = {}
    /\ ZipsNamed(fnArgs.ghRelease.Assets, <<"addon", ".zip">>) # {}
    /\ fnRes.val.err # nil

\* the classic-flavor pattern read without regard to letter case: a piece
\* of the name, lower-cased, is one of classic, bc, wrath, cata
ToLower(piece) ==
    CASE piece = "Classic" -> "classic"
      [] piece = "CATA"    -> "cata"
      [] OTHER             -> piece
MatchesClassicPattern(name) ==
    \E i \in 1..Len(name) : ToLower(name[i]) \in {"classic", "bc", "wrath", "cata"}

\* positions of the assets the fallback may take: zip-typed, name not
\* matching the classic-flavor pattern
Qualifying(pool) ==
    { i \in 1..Len(pool) :
        /\ pool[i].ContentType = "application/zip"
        /\ ~MatchesClassicPattern(pool[i].Name) }

\* C15: without a manifest, or with a manifest that has no entry tagged
\* mainline, findTaggedRel returns the first asset in pool order that is
\* zip-typed and whose name does not match the classic-flavor pattern,
\* labelled with the release's tag name; when no asset qualifies it fails.
C15_FallbackResolution ==
    RelReturned =>
        LET pool == fnArgs.ghRelease.Assets
            q    == Qualifying(pool)
        IN  FirstMainline(fnArgs.addonReleases.Releases) = 0 =>
                IF q = {}
                THEN fnRes.val.err # nil /\ fnRes.val.asset = NoAsset
                ELSE LET first == CHOOSE i \in q : \A j \in q : i <= j
                     IN  /\ fnRes.val.err = nil
                         /\ fnRes.val.asset =
                              [pool[first] EXCEPT !.Version = fnArgs.ghRelease.TagName,
                                                  !.RelType = GhRelease]

\* no manifest, a pool whose only zips carry a classic flavor in capitals,
\* and the call has returned one of them
C15_Diverges ==
    /\ RelReturned
    /\ fnArgs.addonReleases.Releases = << >>
    /\ fnArgs.ghRelease.Assets # << >>
    /\ Qualifying(fnArgs.ghRelease.Assets) = {}
    /\ fnRes.val.err = nil
    /\ fnRes.val.asset.Version = fnArgs.ghRelease.TagName

\* C16: in fallback selection an asset whose name contains classic, bc,
\* wrath or cata in any letter case is never the resolved asset.
C16_ClassicFilterAnyCase ==
    (RelReturned /\ FirstMainline(fnArgs.addonReleases.Releases) = 0
                 /\ fnRes.val.err = nil)
        => ~MatchesClassicPattern(fnRes.val.asset.Name)

\* the fallback has resolved to addon-CATA.zip although addon.zip follows it
\* in the pool
C16_Diverges ==
    /\ RelReturned
    /\ FirstMainline(fnArgs.addonReleases.Releases) = 0
    /\ fnRes.val.err = nil
    /\ fnRes.val.asset.Name = <<"addon", "-", "CATA", ".zip">>
    /\ \E i \in 2..Len(fnArgs.ghRelease.Assets) :
          fnArgs.ghRelease.Assets[i].Name = <<"addon", ".zip">>

\* the call in progress is findTaggedRef and it has returned
RefReturned == fnArgs.fn = "findTaggedRef" /\ fnRes.done

\* the pieces of a ref after its last '/'
TrailingSegment(ref) ==
    LET slashes == { i \in 1..Len(ref) : ref[i] = "/" }
        last    == IF slashes = {} THEN 0
                   ELSE CHOOSE i \in slashes : \A j \in slashes : j <= i
    IN  SubSeq(ref, last + 1, Len(ref))

\* C17: findTaggedRef fails on an empty ref list; on a non-empty list it
\* resolves from the last entry: name = trailing path segment of the ref +
\* ".zip", download URL = https://github.com/{name}/archive/{ref}.zip, kind
\* tagged-ref, and the full ref string as both version label and reference
\* identifier.
C17_TaggedRefResolution ==
    RefReturned =>
        IF fnArgs.ghRefs = << >>
        THEN fnRes.val.err # nil /\ fnRes.val.asset = NoAsset
        ELSE LET ref == fnArgs.ghRefs[Len(fnArgs.ghRefs)].Ref
             IN  /\ fnRes.val.err = nil
                 /\ fnRes.val.asset.Name = TrailingSegment(ref) \o <<".zip">>
                 /\ fnRes.val.asset.DownloadUrl =
                      <<"https://github.com/">> \o a.Name \o <<"/archive/">>
                          \o ref \o <<".zip">>
                 /\ fnRes.val.asset.RelType = GhTag
                 /\ fnRes.val.asset.Version = ref
                 /\ fnRes.val.asset.RefSha = ref

\* the list of the one ref refs/tags/31 has resolved to name 31.zip with the
\* version label 31.zip
C17_Diverges ==
    /\ RefReturned
    /\ fnArgs.ghRefs = << [Ref |-> <<"refs", "/", "tags", "/", "31">>, Sha |-> <<"abc">>] >>
    /\ fnRes.val.err = nil
    /\ fnRes.val.asset.Name = <<"31", ".zip">>
    /\ fnRes.val.asset.RefSha = <<"refs", "/", "tags", "/", "31">>
    /\ fnRes.val.asset.Version = <<"31", ".zip">>

\* ---- skipped add-ons (Spec) ----

\* update has not gone past the comparison and has touched nothing under the
\* add-ons directory
NothingInstalled ==
    /\ pc \in {"idle", "check", "manifest", "compare", "done"}
    /\ ops.downloads = 0
    /\ ops.removed = {} /\ ~ops.removeFailed
    /\ ops.mkdirs = {} /\ ops.writes = {} /\ ops.late = {}
    /\ ~ops.recorded
    /\ made = {}
    /\ pc # "idle" => a = pre

\* update has returned with an asset resolved
Resolved == pc = "done" /\ asset # NoAsset

\* the cache files of the documents fetched to resolve the add-on
ResolutionDocs ==
    { a.shortName \o <<"-rel.json">>, a.shortName \o <<"-addonRel.json">>,
      a.shortName \o <<"-ref.json">> }

\* C19 (as stated): for an add-on flagged skip, update never downloads an
\* archive, never deletes or writes anything on disk and leaves its UpdateInfo
\* unchanged, and returns a status without error when resolution succeeds.
C19_SkipWritesNothing ==
    a.skip =>
        /\ NothingInstalled
        /\ cache = << >>
        /\ Resolved => status.err = nil

\* C19 (amended): for an add-on flagged skip, update never downloads an
\* archive, never deletes or writes anything under the add-ons directory and
\* leaves the add-on's stored state unchanged, and returns a status without
\* error when resolution succeeds; the only files it writes are the cache
\* copies of the documents fetched for resolution, when a cache directory is
\* configured.
C19_SkipInstallsNothing ==
    a.skip =>
        /\ NothingInstalled
        /\ DOMAIN cache \subseteq ResolutionDocs
        /\ cacheDir = Empty => cache = << >>
        /\ Resolved => status.err = nil

\* a skipped add-on for which an update exists: resolved from the network
\* with a cache directory configured, compared, and stopped with the line
\* "skipping update" and no error
C19_Witness ==
    /\ a.skip
    /\ Resolved
    /\ hasUpdate(a, asset)
    /\ logs[Len(logs)] = "skipping update"
    /\ status.err = nil
    /\ cache # << >>

\* ---- UpdateAddons (SpecAddons) ----

\* the range over the result channel has ended: the channel is closed and empty
Finished == ResultsClosed /\ updatePool.results = << >>

\* update has returned for add-on i
Returned(i) == upd[i].pc \in {"done", "returned"}

\* every invocation has run to completion and each add-on's status has been
\* delivered exactly once
AllDelivered ==
    /\ Len(updatePool.received) = N
    /\ \A i \in 1..N :
          /\ upd[i].pc = "returned"
          /\ Cardinality({ k \in 1..Len(updatePool.received) :
                             updatePool.received[k].addon = i }) = 1
          /\ \A k \in 1..Len(updatePool.received) :
                updatePool.received[k].addon = i
                    => updatePool.received[k].err = upd[i].err

\* the outcome of add-on i is what its own steps give: with every request and
\* extraction of its own successful, no error and the resolved asset recorded
OwnOutcome(i) ==
    (Returned(i) /\ upd[i].clean) =>
        /\ upd[i].err = nil
        /\ upd[i].asset # NoAsset
        /\ Recorded(am.Addons[i]) =
              <<upd[i].asset.Version, upd[i].asset.UpdatedAt, upd[i].asset.RefSha>>

\* C20: for N configured add-ons and any subset of them failing at any step,
\* every add-on's update runs to completion, exactly N statuses are delivered
\* on the result stream, and a failing add-on changes neither the status nor
\* the UpdateInfo of any other add-on.
C20_FailureIsolation ==
    /\ Finished => AllDelivered
    /\ \A i \in 1..N : OwnOutcome(i)

\* two add-ons, all statuses delivered: the first failed on a request of its
\* own, the second made no failing request and extracted nothing, yet its
\* status carries an error
C20_Diverges ==
    /\ Finished
    /\ N = 2
    /\ ~upd[1].clean /\ upd[1].err # nil
    /\ upd[2].clean /\ upd[2].err # nil
    /\ Len(updatePool.received) = 2

\* ---- order of the steps of one update (Spec) ----

\* tasks of the file extraction batch are queued, running or not yet counted
\* as done
BatchInProgress == diskQueue # << >> \/ running # {} \/ wg > 0

\* C21: the steps of one add-on's update are strictly sequential and in
\* order: resolution (release or tags, then manifest) before the archive
\* download, the download before the deletion of stale directories, the
\* deletion before any directory is created, every directory before the file
\* extraction batch, and the whole batch before UpdateInfo is recorded; the
\* batch is in progress only during its own step.
C21_StepsSequential ==
    /\ BatchInProgress => pc = "dispatch"
    /\ pc \in {"check", "manifest", "compare"} => ops = NoOps
    /\ pc \in {"check", "manifest"} => asset = NoAsset
    /\ ops.downloads > 0 => asset # NoAsset
    /\ (ops.removed # {} \/ ops.removeFailed) => (ops.downloads = 1 /\ buf.kind = "zip")
    /\ ops.mkdirs # {} =>
          (delIdx > Len(pre.ExtractedDirs) /\ ~ops.removeFailed /\ pc # "delete")
    /\ pc = "delete" => (ops.mkdirs = {} /\ ops.writes = {})
    /\ pc = "walk" => (ops.writes = {} /\ delIdx > Len(pre.ExtractedDirs))
    /\ ops.writes # {} => (walkIdx > Len(zipRd) /\ pc \in {"dispatch", "done"})
    /\ ops.recorded =>
          (pc = "done" /\ ~BatchInProgress /\ dispIdx > Len(extractFiles))

\* an update that went through every step: directories deleted, directories
\* created, files written, UpdateInfo recorded
C21_Witness ==
    /\ pc = "done"
    /\ ops.recorded
    /\ ops.removed # {}
    /\ ops.mkdirs # {}
    /\ Cardinality(ops.writes) >= 2

\* ---- task pools (SpecPool) ----

\* every goroutine of the pool has returned and, for a result-bearing pool,
\* the consumer has read the result stream to its end
PoolDone ==
    /\ tp.exited = tp.threads
    /\ tp.res => (tp.resClosed /\ tp.results = << >>)

\* the caller has not cancelled and no unit panics
PlainUse == ~tp.cancelled /\ tp.faulty = {}

\* C22: when k units are submitted and the submission channel is then closed,
\* without cancel, every unit is executed exactly once and every goroutine
\* returns; for the result-bearing pool exactly k results are delivered, one
\* per unit, and the result stream is closed only after the last of them was
\* sent.  Until all that has happened some step of the pool is possible.
C22_DrainOnClose ==
    PlainUse =>
        /\ \A u \in 1..tp.k : tp.ran[u] <= 1 /\ tp.received[u] <= tp.ran[u]
        /\ tp.exited > 0 => (tp.closed /\ tp.sent = tp.k /\ tp.queue = << >>)
        /\ tp.exited = tp.threads => \A u \in 1..tp.k : tp.ran[u] = 1
        /\ tp.resClosed =>
              /\ tp.sending = {}
              /\ \A u \in 1..tp.k :
                    tp.received[u]
                      + Cardinality({ i \in 1..Len(tp.results) : tp.results[i] = u }) = 1
        /\ (tp.resClosed /\ tp.results = << >>) => \A u \in 1..tp.k : tp.received[u] = 1
        /\ ~PoolDone => ENABLED PoolStep

\* a result-bearing pool of two goroutines and a capacity of one has run
\* three units and delivered their three results, and has shut down
C22_Witness ==
    /\ PlainUse
    /\ tp.res /\ tp.threads = 2 /\ tp.cap = 1 /\ tp.k = 3
    /\ PoolDone
    /\ tp.peak = 2
    /\ \A u \in 1..3 : tp.received[u] = 1

\* C23: once cancel has been invoked on a pool, no goroutine begins executing
\* a unit that had not already started; the units still queued are abandoned.
C23_CancelAbandonsQueued == tp.late = {}

\* cancel was invoked with units 2 and 3 still queued behind the running unit
\* 1 of a pool of one goroutine; unit 2 was started afterwards and has run
C23_Diverges ==
    /\ tp.cancelled
    /\ tp.threads = 1
    /\ ~tp.res
    /\ tp.faulty = {}
    /\ 2 \in tp.late
    /\ 1 \notin tp.late
    /\ tp.ran[2] = 1

\* C24: a unit that panics while a goroutine of the pool executes it does not
\* prevent the units already queued on that pool from being executed: a
\* goroutine is still able to take the next of them.
C24_PanicIsolated ==
    (tp.crashed /\ tp.queue # << >>) => ENABLED PoolTake

\* unit 2 has panicked on a pool of two goroutines, one of them idle, with
\* unit 3 queued: nothing runs any more
C24_Diverges ==
    /\ tp.crashed
    /\ tp.threads = 2
    /\ tp.running = {2}
    /\ tp.queue # << >>
    /\ Head(tp.queue) = 3
    /\ tp.ran[3] = 0
    /\ ~tp.cancelled
    /\ ~ENABLED NextPool

\* C25: the units executing on a pool are never more than its goroutines: the
\* network fetches in flight are at most the network worker count and the
\* file extractions at most the disk worker count, whatever the number of
\* units; five units on two workers never have more than two in flight, and
\* all five complete.
C25_ConcurrencyBound ==
    /\ Cardinality(tp.running) <= tp.threads
    /\ tp.peak <= tp.threads
    /\ Cardinality(tp.running) + Cardinality(tp.sending) + tp.exited <= tp.threads
    /\ (PlainUse /\ PoolDone) => \A u \in 1..tp.k : tp.ran[u] = 1

\* five units on two goroutines have all run, two of them at once at some
\* instant
C25_Witness ==
    /\ PlainUse
    /\ ~tp.res
    /\ tp.threads = 2
    /\ tp.k = 5
    /\ PoolDone
    /\ tp.peak = 2
    /\ \A u \in 1..5 : tp.ran[u] = 1

\* ---- log fan-in (SpecLogs) ----

\* the block of add-on i: its lines in the order it logged them, then the
\* blank line
RECURSIVE LogBlocks(_)
LogBlock(i) == [n \in 1..fan.lines[i] |-> <<i, n>>] \o << <<i, 0>> >>
LogBlocks(i) == IF i > FanN THEN << >> ELSE LogBlock(i) \o LogBlocks(i + 1)

\* C26: what UpdateAddons prints is a concatenation of one block per add-on,
\* each block being exactly that add-on's lines in the order its update
\* logged them; no line of one add-on appears between two lines of another,
\* for every interleaving and completion order of the updates.
C26_LogBlocks ==
    /\ Len(fan.out) <= Len(LogBlocks(1))
    /\ fan.out = SubSeq(LogBlocks(1), 1, Len(fan.out))
    /\ fan.cur > FanN => fan.out = LogBlocks(1)

\* the second add-on's update has returned with all its lines logged while
\* the first is still logging, and printing of the first block has begun
C26_Witness ==
    /\ FanN = 2
    /\ fan.task[2] = "returned"
    /\ fan.emitted[2] = MaxLines
    /\ fan.task[1] = "running"
    /\ fan.emitted[1] < fan.lines[1]
    /\ fan.out # << >>

\* ---- who writes the persisted update state (SpecAddons) ----

\* the fields of the AddonUpdateInfo an Addon points to, which is the record
\* the UpdateInfo map holds under the add-on's name
UpdateInfoOf(addon) == <<addon.Version, addon.UpdatedOn, addon.RefSha>>
\* the aggregating loop has received the status of add-on i
Aggregated(i) ==
    \E k \in 1..Len(updatePool.received) : updatePool.received[k].addon = i

\* C27: during UpdateAddons no goroutine of the pool writes the persisted
\* UpdateInfo of an add-on: a record differs from what was loaded only once
\* the aggregating loop has received the status of that add-on's task.
C27_OnlyAggregatorWrites ==
    \A i \in 1..N :
        UpdateInfoOf(am.Addons[i]) # UpdateInfoOf(LoadAddon(am.Addons[i].Name, am.Addons[i].RelType))
            => Aggregated(i)

\* update has replaced Version, UpdatedOn and RefSha of an add-on on the
\* goroutine of the pool, and the task has not even returned its status
C27_Diverges ==
    \E i \in 1..N :
        /\ upd[i].pc = "done"
        /\ upd[i].err = nil
        /\ UpdateInfoOf(am.Addons[i]) # UpdateInfoOf(LoadAddon(am.Addons[i].Name, am.Addons[i].RelType))
        /\ ~Aggregated(i)
        /\ updatePool.received = << >>

\* ---- scratch buffers (SpecAddons) ----

\* add-ons whose update is in progress
InProgress == { i \in 1..N : upd[i].pc \in {"check", "manifest", "download", "extract"} }

\* C28: no scratch buffer is held by two updates that are both in progress,
\* and the bytes an add-on is about to parse as its archive are the bytes its
\* own last fetch wrote.
C28_ExclusiveBuffers ==
    /\ \A i \in InProgress : upd[i].bufId \in DOMAIN am.bufs
    /\ \A i, j \in InProgress : i # j => upd[i].bufId # upd[j].bufId
    /\ \A i \in 1..N : upd[i].pc = "extract" => am.bufs[upd[i].bufId] = upd[i].buf

\* one add-on is about to parse the archive it downloaded while the update
\* of another, in progress too, has written a document to its own buffer
C28_Witness ==
    \E i, j \in InProgress :
        /\ i # j
        /\ upd[i].pc = "extract"
        /\ upd[i].buf.kind = "zip"
        /\ upd[j].pc \in {"manifest", "download"}
        /\ am.bufs[upd[j].bufId] \notin {NoBytes, am.bufs[upd[i].bufId]}

\* ---- cache-aware fetch (SpecFn) ----

FetchReturned == fnArgs.fn = "cacheDownloadTask" /\ fnRes.done
CacheHit == fnArgs.cacheRoot # Empty /\ RelFileNm \in DOMAIN fnArgs.files

ConfiguredNames == { canonicalName(cfg.Addons[i]) : i \in 1..Len(cfg.Addons) }

\* C30: after validate every configured add-on's canonical name has a record
\* in UpdateInfo that is not nil; the map SaveAddonCfg writes has exactly the
\* configured canonical names as keys, and each key maps to the very record
\* the update of that add-on wrote to during the run.
C30_PersistedKeySet ==
    /\ cfg.stage \in {"validated", "rejected", "loaded", "saved"} =>
          \A n \in ConfiguredNames :
              n \in DOMAIN cfg.UpdateInfo /\ cfg.UpdateInfo[n] \in 1..Len(cfg.heap)
    /\ cfg.stage = "saved" =>
          /\ DOMAIN cfg.saved = ConfiguredNames
          /\ \A i \in 1..Len(cfg.addons) :
                /\ cfg.saved[cfg.addons[i].Name] = cfg.addons[i].info
                /\ cfg.addons[i].updated =>
                      cfg.heap[cfg.saved[cfg.addons[i].Name]].Version = MaxVer + i

\* a configuration is saved whose file held a record of an add-on no longer
\* configured and of the first of two configured add-ons, the second of which
\* was updated in the run
C30_Witness ==
    /\ cfg.stage = "saved"
    /\ StaleName \in DOMAIN cfg.UpdateInfo
    /\ cfg.UpdateInfo[StaleName] # 0
    /\ Len(cfg.addons) = 2
    /\ cfg.addons[1].info \in 1..Len(ReadHeap)
    /\ cfg.addons[2].info > Len(ReadHeap)
    /\ cfg.addons[2].updated

\* ---- validation of the configuration (SpecFn) ----

LoadReturned == fnArgs.fn = "LoadAddonManagerCfg" /\ fnRes.done
\* the string is empty or white space throughout
Blank(str) == \A i \in 1..Len(str) : str[i] = " "
\* exactly one '/' with something on each side
OneSeparator(name) ==
    /\ Cardinality({ i \in 1..Len(name) : name[i] = "/" }) = 1
    /\ name[1] # "/"
    /\ name[Len(name)] # "/"
\* the string between its leading and trailing white space
Trimmed(str) ==
    LET inner == { i \in 1..Len(str) : str[i] # " " }
    IN  IF inner = {} THEN << >>
        ELSE SubSeq(str, CHOOSE i \in inner : \A j \in inner : i <= j,
                         CHOOSE i \in inner : \A j \in inner : j <= i)
\* conditions (a), (c) and (d) for the k-th add-on configured
RepeatsEarlier(k) ==
    \E j \in 1..(k - 1) :
        canonicalName(fnArgs.Addons[j].NameCfg) = canonicalName(fnArgs.Addons[k].NameCfg)
UnknownRelType(k) == fnArgs.Addons[k].RelType >= GhEnd
EmptyRule(k) ==
    \E i \in 1..Len(fnArgs.Addons[k].Dirs) : Trimmed(fnArgs.Addons[k].Dirs[i]) \in { << >>, <<"-">> }

\* C31 as stated: validate returns an error exactly when some add-on repeats
\* the canonical name of an earlier one, has a canonical name that is not one
\* '/' with a non-empty part on each side or is empty or white space, has an
\* unknown release type, or has a directory rule that is empty, white space
\* or just '-'.
C31_ValidationAsStated ==
    LoadReturned =>
        (fnRes.val.err <=>
            \E k \in 1..Len(fnArgs.Addons) :
                LET name == canonicalName(fnArgs.Addons[k].NameCfg)
                IN  \/ RepeatsEarlier(k)
                    \/ ~OneSeparator(name) \/ Blank(name)
                    \/ UnknownRelType(k)
                    \/ EmptyRule(k))

\* C31, amended: validate returns an error exactly when some add-on repeats
\* the canonical name of an earlier one, has a canonical name that is not one
\* '/' with a non-empty part on each side or that, trimmed of surrounding
\* white space, is empty or just '/', has an unknown release type, or has a
\* directory rule that, trimmed of surrounding white space, is empty or '-'.
C31_Validation ==
    LoadReturned =>
        (fnRes.val.err <=>
            \E k \in 1..Len(fnArgs.Addons) :
                LET name == canonicalName(fnArgs.Addons[k].NameCfg)
                IN  \/ RepeatsEarlier(k)
                    \/ ~OneSeparator(name) \/ Trimmed(name) \in { << >>, <<"/">> }
                    \/ UnknownRelType(k)
                    \/ EmptyRule(k))

\* validate has returned an error for one add-on whose name is a '/' between
\* white space and which is in order otherwise
C31_Witness ==
    /\ LoadReturned
    /\ fnRes.val.err
    /\ Len(fnArgs.Addons) = 1
    /\ fnArgs.Addons[1].NameCfg = <<" ", "/", " ">>
    /\ fnArgs.Addons[1].RelType = 0
    /\ fnArgs.Addons[1].Dirs = << >>

\* ---- directory rules (SpecFn) ----

EndsWithSlash(str) == str # << >> /\ str[Len(str)] = "/"
\* load has returned a manager
Loaded == LoadReturned /\ ~fnRes.val.err
ConfiguredDirs ==
    UNION { { fnArgs.Addons[k].Dirs[i] : i \in 1..Len(fnArgs.Addons[k].Dirs) } :
            k \in 1..Len(fnArgs.Addons) }

\* C32: normalizing a non-empty directory string gives a string that ends in
\* '/', normalizing it again changes nothing, and after validate and load
\* every entry of includeDirs and excludeDirs ends with '/'.
C32_DirNormalization ==
    LoadReturned =>
        /\ \A dir \in ConfiguredDirs \ { << >> } :
              /\ EndsWithSlash(withTrailingSlash(dir))
              /\ withTrailingSlash(withTrailingSlash(dir)) = withTrailingSlash(dir)
        /\ ~fnRes.val.err =>
              \A k \in 1..Len(fnRes.val.am.Addons) :
                  LET addon == fnRes.val.am.Addons[k]
                  IN  /\ \A i \in 1..Len(addon.includeDirs) : EndsWithSlash(addon.includeDirs[i])
                      /\ \A i \in 1..Len(addon.excludeDirs) : EndsWithSlash(addon.excludeDirs[i])

\* an add-on configured with dir1, -dir2 and dir3/ has been loaded
C32_Witness ==
    /\ Loaded
    /\ Len(fnArgs.Addons) = 1
    /\ fnArgs.Addons[1].Dirs = << <<"dir1">>, <<"-", "dir2">>, <<"dir3", "/">> >>
    /\ fnRes.val.cfg.Addons[1].Dirs = << <<"dir1", "/">>, <<"-", "dir2", "/">>, <<"dir3", "/">> >>
    /\ fnRes.val.am.Addons[1].includeDirs # << >>

Excluded(dir) == dir[1] = "-"
Included(dir) == dir[1] # "-"
RECURSIVE Tails(_)
Tails(dirs) == IF dirs = << >> THEN << >> ELSE <<Tail(Head(dirs))>> \o Tails(Tail(dirs))

\* C33: load puts into includeDirs exactly the normalized rules without a
\* leading '-' and into excludeDirs exactly those with one, the '-' removed,
\* each list in the order of the rules.
C33_IncludeExcludeSplit ==
    Loaded =>
        \A k \in 1..Len(fnRes.val.am.Addons) :
            LET rules == fnRes.val.cfg.Addons[k].Dirs
                addon == fnRes.val.am.Addons[k]
            IN  /\ addon.includeDirs = SelectSeq(rules, Included)
                /\ addon.excludeDirs = Tails(SelectSeq(rules, Excluded))

\* an add-on with three excluded directories around an included one is loaded
C33_Witness ==
    /\ Loaded
    /\ Len(fnArgs.Addons) = 1
    /\ fnArgs.Addons[1].Dirs = << <<"-", "dir2">>, <<"dir1">>, <<"-", "dir4", "/">>, <<"-", "dir1">> >>
    /\ fnRes.val.am.Addons[1].includeDirs = << <<"dir1", "/">> >>
    /\ fnRes.val.am.Addons[1].excludeDirs = << <<"dir2", "/">>, <<"dir4", "/">>, <<"dir1", "/">> >>

\* ---- worker counts (SpecFn) ----

Between(lo, n, hi) == IF n < lo THEN lo ELSE IF hi < n THEN hi ELSE n

\* C34: validate clamps NetTasks into 0..8 and DiskTasks into 0..4096; load
\* gives effective counts in 1..8 and 1..4096, 0 becoming 2 and 32; and
\* SaveAddonCfg writes the clamped configured values, a configured 0 as 0.
C34_WorkerCounts ==
    LoadReturned =>
        /\ fnRes.val.cfg.NetTasks = Between(0, fnArgs.NetTasks, 8)
        /\ fnRes.val.cfg.DiskTasks = Between(0, fnArgs.DiskTasks, 4096)
        /\ ~fnRes.val.err =>
              /\ fnRes.val.am.NetTasks \in 1..8
              /\ fnRes.val.am.DiskTasks \in 1..4096
              /\ fnRes.val.cfg.NetTasks = 0 => fnRes.val.am.NetTasks = 2
              /\ fnRes.val.cfg.DiskTasks = 0 => fnRes.val.am.DiskTasks = 32
              /\ fnRes.val.cfg.NetTasks # 0 => fnRes.val.am.NetTasks = fnRes.val.cfg.NetTasks
              /\ fnRes.val.cfg.DiskTasks # 0 => fnRes.val.am.DiskTasks = fnRes.val.cfg.DiskTasks
              /\ savedTasks(fnRes.val.am) = [NetTasks |-> fnRes.val.cfg.NetTasks,
                                             DiskTasks |-> fnRes.val.cfg.DiskTasks]

\* a configuration with too many network goroutines and a negative number of
\* disk goroutines has been loaded
C34_Witness ==
    /\ Loaded
    /\ fnArgs.NetTasks > MaxNetTasks
    /\ fnArgs.DiskTasks < 0
    /\ fnRes.val.am.NetTasks = MaxNetTasks
    /\ fnRes.val.am.DiskTasks = DefaultDiskTasks
    /\ savedTasks(fnRes.val.am).DiskTasks = 0

\* ---- decoded documents (SpecFn) ----

GetTaggedReturned == fnArgs.fn \in {"getTaggedRelease", "getTaggedRef"} /\ fnRes.done

\* C39: whatever body fetchJson decodes without error, the body null
\* included, getTaggedRelease and getTaggedRef hand documents that are not
\* nil to findTaggedRel and findTaggedRef: resolution returns an asset or an
\* error and never faults.
C39_DecodedNeverNil ==
    GetTaggedReturned =>
        /\ ~fnRes.val.fault
        /\ fnRes.val.err = nil \/ fnRes.val.asset = NoAsset

\* the latest release is served as null, or its release.json is, or the tag
\* list is: decoding succeeds and the nil document is dereferenced
C39_Diverges ==
    /\ GetTaggedReturned
    /\ fnRes.val.fault
    /\ \/ fnArgs.fn = "getTaggedRef" /\ fnArgs.refs = NullBytes
       \/ fnArgs.fn = "getTaggedRelease" /\ fnArgs.rel = NullBytes
       \/ fnArgs.fn = "getTaggedRelease" /\ fnArgs.rel.kind = "rel" /\ fnArgs.man = NullBytes

\* ---- moved tags (SpecFn) ----

FindTaggedRefReturned == fnArgs.fn = "findTaggedRef" /\ fnRes.done
LastRef(ghRefs) == ghRefs[Len(ghRefs)].Ref
\* the tag lists whose last entry has the ref of the last entry of the list
\* given
SameLastRef ==
    { other \in RefLists : other # << >> /\ LastRef(other) = LastRef(fnArgs.ghRefs) }

FetchAgain ==
    cacheDownloadTask(fnRes.val.buf, fnArgs.cacheRoot, fnRes.val.cache, RelFileNm,
                      fnArgs.served, "ok")

\* C36: with a cache root, when cacheDownloadTask fails no cache file is left
\* under the key, and a later fetch of the key makes a request again.
C36_FailedFetchLeavesNoFile ==
    (FetchReturned /\ fnArgs.cacheRoot # Empty /\ fnRes.val.err # nil) =>
        /\ RelFileNm \notin DOMAIN fnRes.val.cache
        /\ FetchAgain.requested

\* the request of a fetch that missed the cache failed, the cache file it had
\* created is left, and the next fetch returns that file without a request
C36_Diverges ==
    /\ FetchReturned
    /\ fnArgs.cacheRoot # Empty
    /\ RelFileNm \notin DOMAIN fnArgs.files
    /\ fnArgs.net = "fail"
    /\ fnRes.val.err # nil
    /\ RelFileNm \in DOMAIN fnRes.val.cache
    /\ ~FetchAgain.requested
    /\ FetchAgain.err = nil
    /\ FetchAgain.buf = BadBytes

\* C35: UpdateAddons is free of deadlock and ends: whatever the number of
\* add-ons and whichever requests and file operations fail, as long as each of
\* them returns, every send on the task, log, disk and result channels goes
\* through in the end, the result stream is closed and the printer has printed
\* every block.
C35_Terminates == <>RunDone
\* the same for the calls in which no decoded document is nil
C35_TerminatesUnlessPanic == <>(RunDone \/ run.stage = "crashed")
\* short of a panic, some goroutine can take a step until UpdateAddons returns
C35_NoDeadlock == RunLive /\ ~RunDone => ENABLED NextRun
\* a goroutine has panicked with an update still waiting to be taken, the
\* result stream open and the printer not at its end
C35_Diverges ==
    /\ run.stage = "crashed"
    /\ ~run.resClosed
    /\ run.cur <= RunN
    /\ \E i \in 1..RunN : run.upd[i].pc = "queued"

\* the file tasks of extractZip that are in the disk channel or with a worker
Outstanding == { diskQueue[k] : k \in 1..Len(diskQueue) } \cup running
\* the files the loop of extractZip has not come to
NotReached == IF pc = "dispatch" THEN dispIdx..Len(extractFiles) ELSE {}

\* C37: extractZip returns only when every file task it sent to the disk pool
\* has finished.  Each file is counted once: the wait counter is the number of
\* files not yet reached plus the tasks queued or running, a skipped file is
\* never also a task, the counter never rises during the wait and is never
\* negative.  The buffer the tasks read the archive from is not changed, and
\* update does not return, while a task is queued or running.
C37_WaitsForFileTasks ==
    /\ [](/\ wg >= 0
          /\ wg = Cardinality(NotReached) + Len(diskQueue) + Cardinality(running)
          /\ Cardinality(Outstanding) = Len(diskQueue) + Cardinality(running)
          /\ ops.skipped \cap Outstanding = {}
          /\ Outstanding # {} => (pc = "dispatch" /\ buf.kind = "zip"))
    /\ [][/\ pc = "dispatch" /\ pc' = "dispatch" => wg' <= wg
          /\ Outstanding # {} => (buf' = buf /\ pc' = "dispatch")
          /\ pc = "dispatch" /\ pc' # "dispatch" => (wg = 0 /\ Outstanding = {})]_vars
\* extractZip is about to return with the counter at zero: one file was
\* written by a task, a file after it was skipped in the loop and never sent
C37_Witness ==
    /\ pc = "dispatch"
    /\ dispIdx > Len(extractFiles)
    /\ wg = 0
    /\ ops.skipped # {}
    /\ ops.writes # {}
    /\ Outstanding = {}

\* C38: the blocks are printed in the order in which the add-ons are
\* configured and submitted, in whatever order their updates start and
\* return: what is printed never goes back to an earlier add-on, and the
\* printer is at add-on k only with the blocks of all add-ons before k ended.
\* No update sends a line on its log channel once the channel is closed.
C38_SubmissionOrder ==
    /\ [](/\ \A p, q \in 1..Len(fan.out) : p < q => fan.out[p][1] <= fan.out[q][1]
          /\ \A k \in 1..FanN :
                (k < fan.cur) = (\E p \in 1..Len(fan.out) : fan.out[p] = <<k, 0>>)
          /\ \A p \in 1..Len(fan.out) : fan.out[p][1] <= fan.cur
          /\ \A i \in 1..FanN :
                fan.chans[i].closed =>
                    (fan.task[i] = "returned" /\ fan.emitted[i] = fan.lines[i]))
    /\ [][\A i \in 1..FanN :
             fan.chans[i].closed =>
                 /\ fan'.emitted[i] = fan.emitted[i]
                 /\ Len(fan'.chans[i].buf) <= Len(fan.chans[i].buf)
                 /\ fan'.chans[i].closed]_vars
\* the update of the second add-on has returned and its channel is closed with
\* all its lines in it, while the printer is still in the block of the first
\* add-on, whose update is running: nothing of the second has been printed
C38_Witness ==
    /\ FanN = 2
    /\ fan.chans[2].closed
    /\ Len(fan.chans[2].buf) = fan.lines[2]
    /\ ~fan.chans[1].closed
    /\ fan.cur = 1
    /\ Len(fan.out) >= 2
====
